---- MODULE Spec2Model ----
(***************************************************************************)
(* A model of cfichtmueller/srv: the Response builder and its Write        *)
(* (middleware.go), the Server/Group route registration and the dispatch   *)
(* wrapper with its middleware closures (the Server source file),          *)
(* LoggingMiddleware (logging_middleware.go), the Context with its client  *)
(* addresses, conditional-request helpers, BindJSON, value store and query *)
(* parameters (context.go, util.go), and the validation checks             *)
(* (validator.go).                                                         *)
(*                                                                         *)
(* Go values are modelled as follows.  A nil pointer, nil interface, nil   *)
(* func or nil error is the string Nil.  A []byte is a string.  A slice is *)
(* a record [arr, off, len] pointing into heap, the collection of backing  *)
(* arrays; its capacity is the rest of its backing array.                  *)
(***************************************************************************)
EXTENDS Integers, Sequences, FiniteSets, TLC

VARIABLES
    \* ---- Response builder and Write (middleware.go)
    resp,       \* the Response under construction
    lastBody,   \* history: the last Json/Html/Text/Body call, as [kind, val, ct]
    ncalls,     \* history: number of builder calls made on resp
    wstate,     \* "building" until Write has been called, then "written"
    wres,       \* what the Write call did: [err, hdr, steps]
    \* ---- Server, Group, routes
    heap,       \* backing arrays of the []Middleware slices
    srvMw,      \* Server.middleware, a slice
    groups,     \* the Groups created so far
    routes,     \* the patterns registered on the mux, with their wrapped handlers
    \* ---- one dispatch of a request through a route's wrapped handler
    pc,         \* "idle", "call", "ret", "done", "panicked"
    cur,        \* index in routes of the route being dispatched
    frames,     \* the middleware that called next and wait for it, outermost first
    ret,        \* the *Response being returned up the chain, or Nil
    trace,      \* history: the functions entered and left, in order
    writes,     \* the Write calls the wrapper made: their results, in order
    errlog,     \* slog.Error records written by the wrapper
    \* ---- one mutator call on the Response under construction
    mcall,      \* history: the last mutator call, its receiver before and after
    \* ---- one Context (context.go) and the calls made on it
    ctx,        \* the Context: its config, its request, its memoized addresses
    resolves,   \* history: the results of the calls of IPResolver.Resolve, in order
    outs,       \* history: the Context calls made and what each returned, in order
    \* ---- the Contexts of the requests in flight (context.go)
    ctxs,       \* the Contexts the dispatch wrapper created, in order
    stores,     \* the maps made for Context.values, by reference
    seen,       \* history: the calls made on the Contexts and what each returned
    \* ---- one chain of validation checks (validator.go)
    verrs,      \* the ValidationErrors allocated: their Code, Message, Errors
    vcur,       \* the *ValidationError threaded through the checks
    vlog        \* history: the checks made, each with its prev and its result

respVars == <<resp, lastBody, ncalls, wstate, wres>>
regVars == <<heap, srvMw, groups, routes>>
dispVars == <<pc, cur, frames, ret, trace, writes, errlog>>
callVars == <<mcall>>
ctxVars == <<ctx, resolves, outs>>
storeVars == <<ctxs, stores, seen>>
valVars == <<verrs, vcur, vlog>>
vars == <<resp, lastBody, ncalls, wstate, wres, heap, srvMw, groups, routes,
          pc, cur, frames, ret, trace, writes, errlog, mcall, ctx, resolves, outs,
          ctxs, stores, seen, verrs, vcur, vlog>>

Nil == "nil"

(***************************************************************************)
(* Bounds of the model.                                                    *)
(***************************************************************************)
MaxCalls == 3       \* builder calls on one Response before Write
MaxSrvMw == 3       \* length of Server.middleware
MaxGroups == 2      \* Groups created
MaxRoutes == 2      \* routes registered
MaxChain == 3       \* middleware arguments of one route registration
MaxReqs == 2        \* requests in flight at once
MaxStoreCalls == 3  \* calls made on the Contexts of the requests in flight
MaxChecks == 4      \* calls of one chain of validation checks

(***************************************************************************)
(* Input domains.                                                          *)
(***************************************************************************)
\* outcome of the sink's Write(body): nil or an error
SinkErrs == {Nil, "ErrSink"}
HeaderNames == {"Content-Type", "Age", "Access-Control-Max-Age", "Retry-After",
                "ETag", "Last-Modified", "Via", "Set-Cookie"}
\* int arguments of the numeric setters
IntArgs == {-12, 0, 10, 305}

StatusOK == 200
StatusCreated == 201
StatusNotModified == 304
StatusBadRequest == 400
StatusUnauthorized == 401
StatusForbidden == 403
StatusNotFound == 404
StatusMethodNotAllowed == 405
StatusNotAcceptable == 406
StatusProxyAuthRequired == 407
StatusConflict == 409
StatusPreconditionFailed == 412
StatusInternalServerError == 500

(***************************************************************************)
(* Response (middleware.go)                                                *)
(***************************************************************************)
\* Respond(): status 200, empty headers, no cookies, no body, no callbacks
Respond ==
    [StatusCode |-> StatusOK,
     headers    |-> [h \in HeaderNames |-> <<>>],
     cookies    |-> <<>>,
     bodyFn     |-> Nil,
     jsonBody   |-> Nil,
     rawBody    |-> "",
     afterWrite |-> <<>>]

\* http.Header.Set: the values of key become the single value
HeaderSet(r, key, value) ==
    [r EXCEPT !.headers = [@ EXCEPT ![key] = <<value>>]]

ContentType(r, contentType) == HeaderSet(r, "Content-Type", contentType)

Json(r, data) ==
    ContentType([r EXCEPT !.jsonBody = data], "application/json;charset=UTF-8")

Html(r, html) ==
    ContentType([r EXCEPT !.rawBody = html], "text/html;charset=UTF-8")

Text(r, text) ==
    ContentType([r EXCEPT !.rawBody = text], "text/plain;charset=UTF-8")

Body(r, contentType, data) ==
    HeaderSet([r EXCEPT !.rawBody = data], "Content-Type", contentType)

BodyFn(r, contentType, bodyFn) ==
    HeaderSet([r EXCEPT !.bodyFn = bodyFn], "Content-Type", contentType)

AfterWrite(r, fn) == [r EXCEPT !.afterWrite = Append(@, fn)]

Status(r, status) == [r EXCEPT !.StatusCode = status]

\* statusWithBody that also resets the bodies when no body argument is given
statusWithBody_resetsBody(r, status, body) ==
    IF Len(body) > 0
    THEN Json([r EXCEPT !.StatusCode = status], body[1])
    ELSE [r EXCEPT !.StatusCode = status, !.jsonBody = Nil, !.rawBody = ""]

\* statusWithBody(status, body...): body is the sequence of variadic arguments
statusWithBody(r, status, body) ==
    IF Len(body) > 0
    THEN Json([r EXCEPT !.StatusCode = status], body[1])
    ELSE [r EXCEPT !.StatusCode = status]

Unauthorized(r, body) == statusWithBody(r, StatusUnauthorized, body)

NotModified(r) == [r EXCEPT !.StatusCode = StatusNotModified]
PreconditionFailed(r) == [r EXCEPT !.StatusCode = StatusPreconditionFailed]

\* strconv.Itoa: the decimal digits of n, most significant first, after a
\* minus sign when n is negative
Digit(d) ==
    CASE d = 0 -> "0" [] d = 1 -> "1" [] d = 2 -> "2" [] d = 3 -> "3"
      [] d = 4 -> "4" [] d = 5 -> "5" [] d = 6 -> "6" [] d = 7 -> "7"
      [] d = 8 -> "8" [] d = 9 -> "9"

RECURSIVE Digits(_)
Digits(n) == IF n < 10 THEN Digit(n) ELSE Digits(n \div 10) \o Digit(n % 10)

Itoa(n) == IF n < 0 THEN "-" \o Digits(-n) ELSE Digits(n)

\* the outcome of a mutator call: it panicked, or it returned the receiver r
Returned(r) == [panicked |-> FALSE, r |-> r]
Panicked(r) == [panicked |-> TRUE, r |-> r]

\* Age that clamps a negative argument to 0 instead of panicking
Age_clamps(r, deltaSeconds) ==
    IF deltaSeconds < 0
    THEN Returned(HeaderSet(r, "Age", Itoa(0)))
    ELSE Returned(HeaderSet(r, "Age", Itoa(deltaSeconds)))

Age(r, deltaSeconds) ==
    IF deltaSeconds < 0
    THEN Panicked(r)
    ELSE Returned(HeaderSet(r, "Age", Itoa(deltaSeconds)))

AccessControlMaxAge(r, maxAge) ==
    IF maxAge < 0
    THEN Panicked(r)
    ELSE Returned(HeaderSet(r, "Access-Control-Max-Age", Itoa(maxAge)))

RetryAfterSeconds(r, seconds) ==
    Returned(HeaderSet(r, "Retry-After", Itoa(seconds)))

ETag(r, etag) == HeaderSet(r, "ETag", "\"" \o etag \o "\"")

\* Via: http.Header.Add, one more value of the Via header
Via(r, via) == [r EXCEPT !.headers = [@ EXCEPT !["Via"] = Append(@, via)]]

\* CookieRaw: the cookie is appended to r.cookies
CookieRaw(r, cookie) == [r EXCEPT !.cookies = Append(@, cookie)]

\* Cookie: an empty path becomes "/"
Cookie(r, name, value, maxAge, path) ==
    CookieRaw(r, [Name |-> name, Value |-> value, MaxAge |-> maxAge,
                  Path |-> IF path = "" THEN "/" ELSE path])

\* json.Marshal: the encoding of v, or an error for a value it cannot encode
Marshal(v) ==
    CASE v = "obj" -> [err |-> Nil, b |-> "{\"a\":1}"]
      [] v = "chan" -> [err |-> "UnsupportedTypeError", b |-> ""]

\* a BodyFn called with the sink: the error it returns
CallBodyFn(fn) == IF fn = "fnErr" THEN "ErrStream" ELSE Nil

\* one thing Write does: op is "headers" (the loop over r.headers), "cookies"
\* (the loop over r.cookies), "marshal" (json.Marshal of data), "status"
\* (w.WriteHeader(code)), "bodyFn" (the call of streaming writer data), "write"
\* (w.Write(data)) or "after" (the call of callback data); err is the error
\* that call returned
Step(op, code, data, err) == [op |-> op, code |-> code, data |-> data, err |-> err]

\* the deferred function of Write: every afterWrite callback, in order
RunAfterWrite(r) ==
    [i \in 1..Len(r.afterWrite) |-> Step("after", 0, r.afterWrite[i], Nil)]

\* the first loop with w.Header().Set(k, val) in the place of Add
AddHeaders_setsLast(r, sinkHdr) ==
    [k \in HeaderNames |->
        IF r.headers[k] = <<>> THEN sinkHdr[k]
        ELSE <<r.headers[k][Len(r.headers[k])]>>]

\* the first loop of Write: w.Header().Add(k, val) for every value of every
\* header of r, on a sink whose header set is sinkHdr
AddHeaders(r, sinkHdr) == [k \in HeaderNames |-> sinkHdr[k] \o r.headers[k]]

\* Cookie.String() of net/http: the Set-Cookie line of the cookie, empty for
\* a cookie whose Name is not a valid cookie name
CookieString(cookie) ==
    IF cookie.Name = ""
    THEN ""
    ELSE cookie.Name \o "=" \o cookie.Value \o "; Path=" \o cookie.Path
         \o (IF cookie.MaxAge > 0 THEN "; Max-Age=" \o Itoa(cookie.MaxAge)
             ELSE IF cookie.MaxAge < 0 THEN "; Max-Age=0" ELSE "")

\* the second loop of Write: http.SetCookie(w, cookie) for every cookie of r,
\* which adds a Set-Cookie value unless the line of the cookie is empty
RECURSIVE SetCookies(_, _)
SetCookies(cookies, sinkHdr) ==
    IF cookies = <<>> THEN sinkHdr
    ELSE SetCookies(Tail(cookies),
                    IF CookieString(Head(cookies)) = "" THEN sinkHdr
                    ELSE [sinkHdr EXCEPT !["Set-Cookie"] =
                                Append(@, CookieString(Head(cookies)))])

\* WriteBody with the error of w.Write(body) dropped
WriteBody_ignoresSinkErr(r, sinkErr) ==
    LET m == IF r.jsonBody # Nil THEN Marshal(r.jsonBody) ELSE [err |-> Nil, b |-> r.rawBody]
        tried == IF r.jsonBody # Nil
                 THEN <<Step("marshal", 0, r.jsonBody, m.err)>> ELSE <<>>
        status == <<Step("status", r.StatusCode, "", Nil)>>
    IN  IF m.err # Nil
        THEN [err |-> m.err, steps |-> tried]
        ELSE IF r.bodyFn # Nil
        THEN [err |-> CallBodyFn(r.bodyFn),
              steps |-> tried \o status
                        \o <<Step("bodyFn", 0, r.bodyFn, CallBodyFn(r.bodyFn))>>]
        ELSE [err |-> Nil,
              steps |-> tried \o status \o <<Step("write", 0, m.b, sinkErr)>>]

\* Write from "body := r.rawBody" to its return, without the deferred call:
\* the error returned and the steps taken
WriteBody(r, sinkErr) ==
    LET m == IF r.jsonBody # Nil THEN Marshal(r.jsonBody) ELSE [err |-> Nil, b |-> r.rawBody]
        tried == IF r.jsonBody # Nil
                 THEN <<Step("marshal", 0, r.jsonBody, m.err)>> ELSE <<>>
        status == <<Step("status", r.StatusCode, "", Nil)>>
    IN  IF m.err # Nil
        THEN [err |-> m.err, steps |-> tried]
        ELSE IF r.bodyFn # Nil
        THEN [err |-> CallBodyFn(r.bodyFn),
              steps |-> tried \o status
                        \o <<Step("bodyFn", 0, r.bodyFn, CallBodyFn(r.bodyFn))>>]
        ELSE [err |-> sinkErr,
              steps |-> tried \o status \o <<Step("write", 0, m.b, sinkErr)>>]

\* Write with the status line written before the headers are added
Write_statusFirst(r, sinkErr) ==
    LET a == WriteBody(r, sinkErr)
        isStatus(x) == x.op = "status"
        notStatus(x) == x.op # "status"
    IN  [err   |-> a.err,
         hdr   |-> SetCookies(r.cookies, AddHeaders(r, [k \in HeaderNames |-> <<>>])),
         steps |-> SelectSeq(a.steps, isStatus)
                   \o <<Step("headers", 0, "", Nil), Step("cookies", 0, "", Nil)>>
                   \o SelectSeq(a.steps, notStatus) \o RunAfterWrite(r)]

\* Write with the callbacks run at its end instead of deferred: an early
\* return with an error skips them
Write_callbacksOnSuccessOnly(r, sinkErr) ==
    LET a == WriteBody(r, sinkErr)
    IN  [err   |-> a.err,
         hdr   |-> SetCookies(r.cookies, AddHeaders(r, [k \in HeaderNames |-> <<>>])),
         steps |-> <<Step("headers", 0, "", Nil), Step("cookies", 0, "", Nil)>>
                   \o (IF a.err = Nil THEN a.steps \o RunAfterWrite(r) ELSE a.steps)]

\* Response.Write(w) on a sink with no headers yet whose body write returns
\* sinkErr: the error returned, the sink's headers, and the steps in order
Write(r, sinkErr) ==
    LET a == WriteBody(r, sinkErr)
    IN  [err   |-> a.err,
         hdr   |-> SetCookies(r.cookies, AddHeaders(r, [k \in HeaderNames |-> <<>>])),
         steps |-> <<Step("headers", 0, "", Nil), Step("cookies", 0, "", Nil)>>
                   \o a.steps \o RunAfterWrite(r)]

(***************************************************************************)
(* Building one Response and writing it.                                   *)
(***************************************************************************)
RespInit ==
    /\ resp = Respond
    /\ lastBody = [kind |-> "none", val |-> "", ct |-> ""]
    /\ ncalls = 0
    /\ wstate = "building"
    /\ wres = [err |-> Nil, hdr |-> [k \in HeaderNames |-> <<>>], steps |-> <<>>]

Building == wstate = "building" /\ ncalls < MaxCalls

CallJson ==
    \* a nil interface, a value json.Marshal encodes, and one it rejects (a
    \* channel: *json.UnsupportedTypeError)
    \E v \in {Nil, "obj", "chan"} :
        /\ Building
        /\ resp' = Json(resp, v)
        /\ lastBody' = [kind |-> "json", val |-> v, ct |-> "application/json;charset=UTF-8"]
        /\ ncalls' = ncalls + 1
        /\ UNCHANGED <<wstate, wres>>

CallHtml ==
    \E s \in {"<p>"} :
        /\ Building
        /\ resp' = Html(resp, s)
        /\ lastBody' = [kind |-> "raw", val |-> s, ct |-> "text/html;charset=UTF-8"]
        /\ ncalls' = ncalls + 1
        /\ UNCHANGED <<wstate, wres>>

CallText ==
    \E s \in {"txt"} :
        /\ Building
        /\ resp' = Text(resp, s)
        /\ lastBody' = [kind |-> "raw", val |-> s, ct |-> "text/plain;charset=UTF-8"]
        /\ ncalls' = ncalls + 1
        /\ UNCHANGED <<wstate, wres>>

CallBody ==
    \E ct \in {"application/octet-stream"}, d \in {"raw"} :
        /\ Building
        /\ resp' = Body(resp, ct, d)
        /\ lastBody' = [kind |-> "raw", val |-> d, ct |-> ct]
        /\ ncalls' = ncalls + 1
        /\ UNCHANGED <<wstate, wres>>

CallBodyFnSet ==
    \* a streaming writer that returns nil and one that returns an error
    \E ct \in {"text/event-stream"}, fn \in {"fnOk", "fnErr"} :
        /\ Building
        /\ resp' = BodyFn(resp, ct, fn)
        /\ ncalls' = ncalls + 1
        /\ UNCHANGED <<lastBody, wstate, wres>>

CallAfterWrite ==
    \E cb \in {"cb1", "cb2"} :
        /\ Building
        /\ resp' = AfterWrite(resp, cb)
        /\ ncalls' = ncalls + 1
        /\ UNCHANGED <<lastBody, wstate, wres>>

CallWrite ==
    \E sinkErr \in SinkErrs :
        /\ wstate = "building"
        /\ wres' = Write(resp, sinkErr)
        /\ wstate' = "written"
        /\ UNCHANGED <<resp, lastBody, ncalls>>

RespNext ==
    \/ CallJson /\ UNCHANGED regVars /\ UNCHANGED dispVars /\ UNCHANGED callVars
                /\ UNCHANGED ctxVars
                /\ UNCHANGED storeVars /\ UNCHANGED valVars
    \/ CallHtml /\ UNCHANGED regVars /\ UNCHANGED dispVars /\ UNCHANGED callVars
                /\ UNCHANGED ctxVars
                /\ UNCHANGED storeVars /\ UNCHANGED valVars
    \/ CallText /\ UNCHANGED regVars /\ UNCHANGED dispVars /\ UNCHANGED callVars
                /\ UNCHANGED ctxVars
                /\ UNCHANGED storeVars /\ UNCHANGED valVars
    \/ CallBody /\ UNCHANGED regVars /\ UNCHANGED dispVars /\ UNCHANGED callVars
                /\ UNCHANGED ctxVars
                /\ UNCHANGED storeVars /\ UNCHANGED valVars
    \/ CallBodyFnSet /\ UNCHANGED regVars /\ UNCHANGED dispVars /\ UNCHANGED callVars
                     /\ UNCHANGED ctxVars
                     /\ UNCHANGED storeVars /\ UNCHANGED valVars
    \/ CallAfterWrite /\ UNCHANGED regVars /\ UNCHANGED dispVars /\ UNCHANGED callVars
                      /\ UNCHANGED ctxVars
                      /\ UNCHANGED storeVars /\ UNCHANGED valVars
    \/ CallWrite /\ UNCHANGED regVars /\ UNCHANGED dispVars /\ UNCHANGED callVars
                 /\ UNCHANGED ctxVars
                 /\ UNCHANGED storeVars /\ UNCHANGED valVars

(***************************************************************************)
(* Mutator calls on the Response under construction.                       *)
(***************************************************************************)
Shorthands == {"Created", "BadRequest", "Unauthorized", "Forbidden", "NotFound",
               "MethodNotAllowed", "NotAcceptable", "ProxyAuthRequired",
               "Conflict", "InternalServerError"}

\* the call r.<name>(body...) of a status shorthand
Shorthand(name, r, body) ==
    CASE name = "Created" -> statusWithBody(r, StatusCreated, body)
      [] name = "BadRequest" -> statusWithBody(r, StatusBadRequest, body)
      [] name = "Unauthorized" -> Unauthorized(r, body)
      [] name = "Forbidden" -> statusWithBody(r, StatusForbidden, body)
      [] name = "NotFound" -> statusWithBody(r, StatusNotFound, body)
      [] name = "MethodNotAllowed" -> statusWithBody(r, StatusMethodNotAllowed, body)
      [] name = "NotAcceptable" -> statusWithBody(r, StatusNotAcceptable, body)
      [] name = "ProxyAuthRequired" -> statusWithBody(r, StatusProxyAuthRequired, body)
      [] name = "Conflict" -> statusWithBody(r, StatusConflict, body)
      [] name = "InternalServerError" -> statusWithBody(r, StatusInternalServerError, body)

\* the record of one mutator call: its name, its int argument n or its body
\* arguments, the receiver before and after, and whether it panicked
Called(op, n, body, before, o) ==
    [op |-> op, n |-> n, body |-> body, before |-> before, after |-> o.r,
     panicked |-> o.panicked]

CallInit == mcall = Called("none", 0, <<>>, Respond, Returned(Respond))

CallStatusShorthand ==
    \* body is the variadic argument: none, a nil interface, a value, two values
    \E name \in Shorthands, body \in {<<>>, <<Nil>>, <<"obj">>, <<"chan", "obj">>} :
        /\ Building
        /\ resp' = Shorthand(name, resp, body)
        /\ mcall' = Called(name, 0, body, resp, Returned(resp'))
        /\ lastBody' = IF Len(body) > 0
                       THEN [kind |-> "json", val |-> body[1],
                             ct |-> "application/json;charset=UTF-8"]
                       ELSE lastBody
        /\ ncalls' = ncalls + 1
        /\ UNCHANGED <<wstate, wres>>

\* a mutator call with outcome o: a panic leaves the receiver as it was
Mutate(op, n, o) ==
    /\ Building
    /\ resp' = o.r
    /\ mcall' = Called(op, n, <<>>, resp, o)
    /\ ncalls' = ncalls + 1
    /\ UNCHANGED <<lastBody, wstate, wres>>

CallAge == \E n \in IntArgs : Mutate("Age", n, Age(resp, n))

CallAccessControlMaxAge ==
    \E n \in IntArgs : Mutate("AccessControlMaxAge", n, AccessControlMaxAge(resp, n))

CallRetryAfterSeconds ==
    \E n \in IntArgs : Mutate("RetryAfterSeconds", n, RetryAfterSeconds(resp, n))

\* a cookie with a valid name and one with the empty name
CallCookie ==
    \E name \in {"sid", ""}, path \in {"", "/p"} :
        Mutate("Cookie", -12, Returned(Cookie(resp, name, "v", -12, path)))

CallVia ==
    \E via \in {"1.1 a", "1.1 b"} : Mutate("Via", 0, Returned(Via(resp, via)))

MutateNext ==
    \/ CallJson /\ UNCHANGED regVars /\ UNCHANGED dispVars /\ UNCHANGED callVars
                /\ UNCHANGED ctxVars
                /\ UNCHANGED storeVars /\ UNCHANGED valVars
    \/ CallText /\ UNCHANGED regVars /\ UNCHANGED dispVars /\ UNCHANGED callVars
                /\ UNCHANGED ctxVars
                /\ UNCHANGED storeVars /\ UNCHANGED valVars
    \/ CallBodyFnSet /\ UNCHANGED regVars /\ UNCHANGED dispVars /\ UNCHANGED callVars
                     /\ UNCHANGED ctxVars
                     /\ UNCHANGED storeVars /\ UNCHANGED valVars
    \/ CallAfterWrite /\ UNCHANGED regVars /\ UNCHANGED dispVars /\ UNCHANGED callVars
                      /\ UNCHANGED ctxVars
                      /\ UNCHANGED storeVars /\ UNCHANGED valVars
    \/ CallStatusShorthand /\ UNCHANGED regVars /\ UNCHANGED dispVars /\ UNCHANGED ctxVars
                           /\ UNCHANGED storeVars /\ UNCHANGED valVars
    \/ CallAge /\ UNCHANGED regVars /\ UNCHANGED dispVars /\ UNCHANGED ctxVars
               /\ UNCHANGED storeVars /\ UNCHANGED valVars
    \/ CallAccessControlMaxAge /\ UNCHANGED regVars /\ UNCHANGED dispVars /\ UNCHANGED ctxVars
                               /\ UNCHANGED storeVars /\ UNCHANGED valVars
    \/ CallRetryAfterSeconds /\ UNCHANGED regVars /\ UNCHANGED dispVars /\ UNCHANGED ctxVars
                             /\ UNCHANGED storeVars /\ UNCHANGED valVars
    \/ CallCookie /\ UNCHANGED regVars /\ UNCHANGED dispVars /\ UNCHANGED ctxVars
                  /\ UNCHANGED storeVars /\ UNCHANGED valVars

CommitNext ==
    \/ CallVia /\ UNCHANGED regVars
               /\ UNCHANGED dispVars /\ UNCHANGED ctxVars
               /\ UNCHANGED storeVars /\ UNCHANGED valVars
    \/ CallCookie /\ UNCHANGED regVars
                  /\ UNCHANGED dispVars /\ UNCHANGED ctxVars
                  /\ UNCHANGED storeVars /\ UNCHANGED valVars
    \/ CallStatusShorthand /\ UNCHANGED regVars
                           /\ UNCHANGED dispVars /\ UNCHANGED ctxVars
                           /\ UNCHANGED storeVars /\ UNCHANGED valVars
    \/ CallJson /\ UNCHANGED regVars
                /\ UNCHANGED dispVars /\ UNCHANGED ctxVars /\ UNCHANGED callVars
                /\ UNCHANGED storeVars /\ UNCHANGED valVars
    \/ CallBodyFnSet /\ UNCHANGED regVars
                     /\ UNCHANGED dispVars /\ UNCHANGED ctxVars /\ UNCHANGED callVars
                     /\ UNCHANGED storeVars /\ UNCHANGED valVars
    \/ CallWrite /\ UNCHANGED regVars
                 /\ UNCHANGED dispVars /\ UNCHANGED ctxVars /\ UNCHANGED callVars
                 /\ UNCHANGED storeVars /\ UNCHANGED valVars

(***************************************************************************)
(* Slices of Middleware.  heap[a] is backing array a, a sequence whose     *)
(* unused elements are Nil; array 0 is the zero-length array of            *)
(* make([]Middleware, 0).                                                  *)
(***************************************************************************)
\* the middleware values programs pass in: LoggingMiddleware() and a
\* middleware that either rejects the request or calls next
MwIds == {"logging", "auth"}
\* a variadic middleware argument list
MwArgs == {<<>>} \cup {<<m>> : m \in MwIds}
\* longer argument lists, for routes with several middleware of their own
MwLists == UNION {[1..n -> MwIds] : n \in 0..MaxChain}
Handlers == {"h"}
GroupPaths == {<<"/a">>}
RoutePaths == {<<>>, <<"/x">>}

EmptySlice == [arr |-> 0, off |-> 0, len |-> 0]

Cap(h, sl) == IF sl.arr = 0 THEN 0 ELSE Len(h[sl.arr]) - sl.off

\* sl[i], i from 0
At(h, sl, i) == h[sl.arr][sl.off + i + 1]

\* the elements of sl
SliceVals(h, sl) == [i \in 1..sl.len |-> At(h, sl, i - 1)]

\* sl[1:]
Rest(sl) == [arr |-> sl.arr, off |-> sl.off + 1, len |-> sl.len - 1]

\* capacity of the array append allocates for newLen elements when the old
\* capacity is oldCap (gc runtime, 8-byte elements, capacities under 32):
\* double, or newLen if that is more, rounded up to a malloc size class
GrowCap(oldCap, newLen) ==
    LET want == IF newLen > 2 * oldCap THEN newLen ELSE 2 * oldCap
    IN  IF want <= 4 THEN want ELSE want + (want % 2)

\* append(sl, args...): the heap afterwards and the slice returned.  With
\* room in the backing array the elements are written in place, after sl's
\* last element; without, a new array is allocated and sl's elements copied.
AppendSlice(h, sl, args) ==
    LET n == Len(args)
        newLen == sl.len + n
    IN  IF n = 0 THEN [heap |-> h, sl |-> sl]
        ELSE IF newLen <= Cap(h, sl)
        THEN [heap |-> [h EXCEPT ![sl.arr] =
                          [j \in 1..Len(@) |->
                             IF j > sl.off + sl.len /\ j <= sl.off + newLen
                             THEN args[j - sl.off - sl.len] ELSE @[j]]],
              sl   |-> [sl EXCEPT !.len = newLen]]
        ELSE LET c == GrowCap(Cap(h, sl), newLen)
                 old == SliceVals(h, sl)
                 a == [j \in 1..c |->
                         IF j <= sl.len THEN old[j]
                         ELSE IF j <= newLen THEN args[j - sl.len] ELSE Nil]
             IN  [heap |-> Append(h, a),
                  sl   |-> [arr |-> Len(h) + 1, off |-> 0, len |-> newLen]]

(***************************************************************************)
(* wrap and wrapMiddleware.  A closure made by wrapMiddleware holds the    *)
(* slice it was given; called, it reads element 0 of that slice and calls  *)
(* it with, as next, the closure after it, or the handler if it is last.   *)
(***************************************************************************)
RECURSIVE wrapMiddleware(_)
wrapMiddleware(middleware) ==
    IF middleware.len = 1
    THEN <<[middleware |-> middleware]>>
    ELSE <<[middleware |-> middleware]>> \o wrapMiddleware(Rest(middleware))

\* wrap testing len(middleware) > 1: a single middleware is dropped
wrap_skipsSingle(middleware, handler) ==
    [closures |-> IF middleware.len > 1 THEN wrapMiddleware(middleware) ELSE <<>>,
     handler  |-> handler]

wrap(middleware, handler) ==
    [closures |-> IF middleware.len > 0 THEN wrapMiddleware(middleware) ELSE <<>>,
     handler  |-> handler]

(***************************************************************************)
(* Server and Group.  A group is [basePath, middleware]; a route is the    *)
(* pattern given to mux.HandleFunc with the result of wrap.  The fields    *)
(* exp and owner are history: the middleware values the registering call   *)
(* was given (receiver's list at the time, then its own arguments), and    *)
(* the group it was called on (0 for the Server).                          *)
(***************************************************************************)
Registering == pc = "idle"

Patterns == {routes[i].pattern : i \in 1..Len(routes)}

\* Server.Use
Use ==
    \E mw \in MwArgs :
        /\ Registering
        /\ srvMw.len + Len(mw) <= MaxSrvMw
        /\ LET a == AppendSlice(heap, srvMw, mw)
           IN  /\ heap' = a.heap
               /\ srvMw' = a.sl
        /\ UNCHANGED <<groups, routes>>

\* Server.Group
ServerGroup ==
    \E path \in GroupPaths, mw \in MwArgs :
        /\ Registering
        /\ Len(groups) < MaxGroups
        /\ LET a == AppendSlice(heap, srvMw, mw)
           IN  /\ heap' = a.heap
               /\ groups' = Append(groups,
                     [basePath   |-> path,
                      middleware |-> a.sl,
                      exp        |-> SliceVals(heap, srvMw) \o mw,
                      owner      |-> 0])
        /\ UNCHANGED <<srvMw, routes>>

\* Group.Group
GroupGroup ==
    \E g \in 1..Len(groups), path \in GroupPaths, mw \in MwArgs :
        /\ Registering
        /\ Len(groups) < MaxGroups
        /\ LET a == AppendSlice(heap, groups[g].middleware, mw)
           IN  /\ heap' = a.heap
               /\ groups' = Append(groups,
                     [basePath   |-> groups[g].basePath \o path,
                      middleware |-> a.sl,
                      exp        |-> groups[g].exp \o mw,
                      owner      |-> g])
        /\ UNCHANGED <<srvMw, routes>>

\* Server.handleMethod, through Server.GET, with the middleware arguments
\* drawn from args
ServerHandleMethodOf(args) ==
    \E p \in RoutePaths, handler \in Handlers, mw \in args :
        LET path == IF p = <<>> THEN <<"/">> ELSE p
            pattern == [method |-> "GET", path |-> path]
            a == AppendSlice(heap, srvMw, mw)
        IN  /\ Registering
            /\ Len(routes) < MaxRoutes
            /\ pattern \notin Patterns
            /\ heap' = a.heap
            /\ routes' = Append(routes,
                  [pattern |-> pattern,
                   h       |-> wrap(a.sl, handler),
                   exp     |-> SliceVals(heap, srvMw) \o mw,
                   owner   |-> 0])
            /\ UNCHANGED <<srvMw, groups>>

ServerHandleMethod == ServerHandleMethodOf(MwArgs)

\* Group.handleMethod, through Group.GET
GroupHandleMethod ==
    \E g \in 1..Len(groups), p \in RoutePaths, handler \in Handlers, mw \in MwArgs :
        LET pattern == [method |-> "GET", path |-> groups[g].basePath \o p]
            a == AppendSlice(heap, groups[g].middleware, mw)
        IN  /\ Registering
            /\ Len(routes) < MaxRoutes
            /\ pattern \notin Patterns
            /\ heap' = a.heap
            /\ routes' = Append(routes,
                  [pattern |-> pattern,
                   h       |-> wrap(a.sl, handler),
                   exp     |-> groups[g].exp \o mw,
                   owner   |-> g])
            /\ UNCHANGED <<srvMw, groups>>

(***************************************************************************)
(* One dispatch: the function wrap returns, called by the mux for a        *)
(* request matching a registered pattern.  A *Response is [isNil, v].      *)
(***************************************************************************)
NilResponse == [isNil |-> TRUE, v |-> Respond]
Ptr(r) == [isNil |-> FALSE, v |-> r]

\* what the handler of a route returns, depending on the request
HandlerResults ==
    {NilResponse, Ptr(Text(Respond, "txt")), Ptr(Json(Respond, "chan")),
     Ptr(BodyFn(Cookie(Json(Respond, "chan"), "sid", "v", -12, ""), "text/event-stream", "fnOk"))}

\* a function being entered or left: ev is "enter" or "exit", d the number of
\* middleware calls it is nested in, f the function, and for an exit, isNil
\* tells whether it returned a nil *Response
Event(ev, d, f, isNil) == [ev |-> ev, d |-> d, f |-> f, isNil |-> isNil]

\* the chain a dispatch of route i runs now: element 0 of each closure's slice
Chain(i) ==
    [k \in 1..Len(routes[i].h.closures) |-> At(heap, routes[i].h.closures[k].middleware, 0)]

Idle ==
    /\ pc = "idle"
    /\ cur = 0
    /\ frames = <<>>
    /\ ret = NilResponse
    /\ trace = <<>>
    /\ writes = <<>>
    /\ errlog = <<>>

\* the mux calls the function wrap returned: h(NewContext(w, r, conf))
Begin ==
    \E i \in 1..Len(routes) :
        /\ pc = "idle"
        /\ pc' = "call"
        /\ cur' = i
        /\ UNCHANGED <<frames, ret, trace, writes, errlog>>

\* the function about to be called is closure Len(frames) + 1
AtClosure == pc = "call" /\ Len(frames) < Len(routes[cur].h.closures)

\* middleware[0] as the closure about to be called reads it
Callee == At(heap, routes[cur].h.closures[Len(frames) + 1].middleware, 0)

\* a closure calls middleware[0](c, next) and the middleware calls next(c)
MwCallsNext ==
    /\ AtClosure
    /\ trace' = Append(trace, Event("enter", Len(frames), Callee, FALSE))
    /\ frames' = Append(frames, Callee)
    /\ UNCHANGED <<pc, cur, ret, writes, errlog>>

\* a closure that calls remaining itself after a middleware that did not
MwRejects_thenCallsNext ==
    /\ AtClosure
    /\ Callee = "auth"
    /\ trace' = trace \o <<Event("enter", Len(frames), Callee, FALSE),
                            Event("exit", Len(frames), Callee, FALSE)>>
    /\ frames' = Append(frames, Callee)
    /\ UNCHANGED <<pc, cur, ret, writes, errlog>>

\* a closure calls middleware[0](c, next) and the middleware returns a
\* Response of its own without calling next
MwRejects ==
    /\ AtClosure
    /\ Callee = "auth"
    /\ trace' = trace \o <<Event("enter", Len(frames), Callee, FALSE),
                            Event("exit", Len(frames), Callee, FALSE)>>
    /\ ret' = Ptr(Unauthorized(Respond, <<>>))
    /\ pc' = "ret"
    /\ UNCHANGED <<cur, frames, writes, errlog>>

\* the last closure's next, or the wrapper itself, calls the handler
HandlerRuns ==
    \E res \in HandlerResults :
        /\ pc = "call"
        /\ Len(frames) = Len(routes[cur].h.closures)
        /\ trace' = trace \o <<Event("enter", Len(frames), routes[cur].h.handler, FALSE),
                                Event("exit", Len(frames), routes[cur].h.handler, res.isNil)>>
        /\ ret' = res
        /\ pc' = "ret"
        /\ UNCHANGED <<cur, frames, writes, errlog>>

\* LoggingMiddleware replacing a nil r by Respond()
LoggingMiddlewareReturn_substitutes(r) ==
    IF r.isNil THEN [panic |-> FALSE, r |-> Ptr(AfterWrite(Respond, "log"))]
    ELSE [panic |-> FALSE, r |-> Ptr(AfterWrite(r.v, "log"))]

\* LoggingMiddleware after next returned r: return r.AfterWrite(func), which
\* dereferences r
LoggingMiddlewareReturn(r) ==
    IF r.isNil THEN [panic |-> TRUE, r |-> r]
    ELSE [panic |-> FALSE, r |-> Ptr(AfterWrite(r.v, "log"))]

\* the other middleware after next returned r: return r
AuthReturn(r) == [panic |-> FALSE, r |-> r]

\* next returns to the innermost waiting middleware, which returns
MwReturns ==
    /\ pc = "ret"
    /\ frames # <<>>
    /\ LET d == Len(frames)
           m == frames[d]
           out == IF m = "logging" THEN LoggingMiddlewareReturn(ret) ELSE AuthReturn(ret)
       IN  /\ frames' = SubSeq(frames, 1, d - 1)
           /\ IF out.panic
              THEN /\ pc' = "panicked"
                   /\ UNCHANGED <<ret, trace>>
              ELSE /\ ret' = out.r
                   /\ trace' = Append(trace, Event("exit", d - 1, m, out.r.isNil))
                   /\ UNCHANGED pc
    /\ UNCHANGED <<cur, writes, errlog>>

\* the wrapper answering 500 when Write returned an error
WrapWrite_answers500(res, sinkErr) ==
    IF res.isNil
    THEN [pc |-> "panicked", writes |-> <<>>, errlog |-> <<>>]
    ELSE LET w == Write(res.v, sinkErr)
         IN  [pc     |-> "done",
              writes |-> IF w.err # Nil
                         THEN <<w, Write(Status(Respond, StatusInternalServerError), Nil)>>
                         ELSE <<w>>,
              errlog |-> IF w.err # Nil THEN <<w.err>> ELSE <<>>]

\* the wrapper calling Write a second time when the first returned an error
WrapWrite_retries(res, sinkErr) ==
    IF res.isNil
    THEN [pc |-> "panicked", writes |-> <<>>, errlog |-> <<>>]
    ELSE LET w == Write(res.v, sinkErr)
         IN  [pc     |-> "done",
              writes |-> IF w.err # Nil THEN <<w, Write(res.v, Nil)>> ELSE <<w>>,
              errlog |-> IF w.err # Nil THEN <<w.err>> ELSE <<>>]

\* the wrapper once h returned res: panic on nil, else res.Write(w), and
\* slog.Error if it returned an error
WrapWrite(res, sinkErr) ==
    IF res.isNil
    THEN [pc |-> "panicked", writes |-> <<>>, errlog |-> <<>>]
    ELSE LET w == Write(res.v, sinkErr)
         IN  [pc     |-> "done",
              writes |-> <<w>>,
              errlog |-> IF w.err # Nil THEN <<w.err>> ELSE <<>>]

WrapperWrites ==
    \E sinkErr \in SinkErrs :
        /\ pc = "ret"
        /\ frames = <<>>
        /\ LET o == WrapWrite(ret, sinkErr)
           IN  /\ pc' = o.pc
               /\ writes' = writes \o o.writes
               /\ errlog' = errlog \o o.errlog
        /\ UNCHANGED <<cur, frames, ret, trace>>

\* the request is over; the next one starts from nothing
EndDispatch ==
    /\ pc \in {"done", "panicked"}
    /\ pc' = "idle"
    /\ cur' = 0
    /\ frames' = <<>>
    /\ ret' = NilResponse
    /\ trace' = <<>>
    /\ writes' = <<>>
    /\ errlog' = <<>>

(***************************************************************************)
(* IPResolver.  Header values and addresses handled by the resolver are    *)
(* sequences of one-character strings, so that splitting, trimming and     *)
(* parsing are computed on the characters.                                 *)
(***************************************************************************)
MaxCtxCalls == 3    \* calls made on one Context

MaxTimestamps == 2  \* timestamps handed to ConditionalIfModifiedSince
MaxTime == 5        \* latest timestamp, in ticks after the zero time

\* the request headers read by the methods of Context modelled here
RequestHeaders == {"X-Forwarded-For", "Forwarded",
                   "If-Match", "If-None-Match", "If-Modified-Since"}
\* local entity tags, and values of If-Match and If-None-Match ("" is an
\* absent header)
Etags == {"", "a", "b"}
EtagHeaderVals == {"", "\"a\"", "\"b\"", "a", "\"\"", "*"}
\* a time.Time is a number of ticks after the zero time.Time{}
TicksPerSecond == 2
RECURSIVE SeqsUpTo(_, _)
SeqsUpTo(S, n) ==
    IF n = 0 THEN {<<>>}
    ELSE SeqsUpTo(S, n - 1)
         \cup {Append(q, x) : q \in {p \in SeqsUpTo(S, n - 1) : Len(p) = n - 1}, x \in S}
\* values of a forwarding header; the empty one is an absent header
ForwardVals == {<<>>, <<"1">>, <<"1", ",", " ", "2">>, <<"1", ",", "9">>,
                <<"x", ",", "2">>, <<" ", "2", " ", ",">>, <<"x", "1">>}

\* the host of a remote address: the characters before its last colon, or
\* the empty string when it has none
PeerAddress(addr) ==
    LET colons == {i \in 1..Len(addr) : addr[i] = ":"}
    IN  IF colons = {} THEN <<>>
        ELSE SubSeq(addr, 1, (CHOOSE i \in colons : \A j \in colons : j <= i) - 1)

\* the fields of v between its commas, left to right
RECURSIVE SplitComma(_)
SplitComma(v) ==
    LET commas == {i \in 1..Len(v) : v[i] = ","}
    IN  IF commas = {} THEN <<v>>
        ELSE LET i == CHOOSE k \in commas : \A j \in commas : k <= j
             IN  <<SubSeq(v, 1, i - 1)>> \o SplitComma(SubSeq(v, i + 1, Len(v)))

\* f without its leading and trailing blanks
RECURSIVE TrimSpace(_)
TrimSpace(f) ==
    IF f # <<>> /\ f[1] = " " THEN TrimSpace(Tail(f))
    ELSE IF f # <<>> /\ f[Len(f)] = " " THEN TrimSpace(SubSeq(f, 1, Len(f) - 1))
    ELSE f

\* an IP literal: here, a non-empty run of digits
IsIP(f) == f # <<>> /\ \A i \in 1..Len(f) : f[i] \in {"1", "2", "9"}

\* ValidEntries that keeps the malformed entries too
ValidEntries_keepsMalformed(v) ==
    IF v = <<>> THEN <<>>
    ELSE [i \in 1..Len(SplitComma(v)) |-> TrimSpace(SplitComma(v)[i])]

\* the addresses a present header states: its comma-separated entries,
\* trimmed, that are IP literals
ValidEntries(v) ==
    IF v = <<>> THEN <<>>
    ELSE SelectSeq([i \in 1..Len(SplitComma(v)) |-> TrimSpace(SplitComma(v)[i])], IsIP)

\* the header-derived addresses: those of each configured header, in order
RECURSIVE HeaderIPs(_, _)
HeaderIPs(names, r) ==
    IF names = <<>> THEN <<>>
    ELSE ValidEntries(r.Header[Head(names)]) \o HeaderIPs(Tail(names), r)

\* Terminate that appends the peer address whatever the chain ends in
Terminate_always(ips, peer) == Append(ips, peer)

\* the peer address ends the chain: appended unless the chain already ends in it
Terminate(ips, peer) ==
    IF ips = <<>> \/ ips[Len(ips)] # peer THEN Append(ips, peer) ELSE ips

\* Resolve that consults the headers without looking at the trust flag
Resolve_ignoresTrust(conf, r) ==
    IF conf.headers = <<>>
    THEN <<PeerAddress(r.RemoteAddr)>>
    ELSE Terminate(HeaderIPs(conf.headers, r), PeerAddress(r.RemoteAddr))

\* IPResolver.Resolve(r) of a resolver made by NewIPResolver(headers, trust)
Resolve(conf, r) ==
    IF ~conf.trust \/ conf.headers = <<>>
    THEN <<PeerAddress(r.RemoteAddr)>>
    ELSE Terminate(HeaderIPs(conf.headers, r), PeerAddress(r.RemoteAddr))

(***************************************************************************)
(* Context (context.go)                                                    *)
(***************************************************************************)
\* a request: the fields and headers the Context methods modelled here read
Request(addr, xff, fwd) ==
    [Method |-> "GET",
     RemoteAddr |-> addr,
     RawQuery |-> "",
     Body |-> [data |-> "", err |-> Nil],
     Header |-> [h \in RequestHeaders |->
                    CASE h = "X-Forwarded-For" -> xff
                      [] h = "Forwarded" -> fwd
                      [] OTHER -> ""]]

\* NewContext(w, r, conf); values is the reference of the map it makes, an
\* index in stores (0 where the specification leaves the store out)
NewContext(conf, r, values) ==
    [live |-> TRUE, conf |-> conf, r |-> r, queryParsed |-> FALSE, query |-> <<>>,
     values |-> values, ipResolved |-> FALSE, ipAddresses |-> <<>>]

\* before NewContext: no Context yet
CtxInit ==
    /\ ctx = [NewContext([headers |-> <<>>, trust |-> FALSE], Request(<<>>, <<>>, <<>>), 0)
                 EXCEPT !.live = FALSE]
    /\ resolves = <<>>
    /\ outs = <<>>

\* the lazy resolution at the head of ClientIP and RemoteIP, without the
\* assignment of ipResolved
resolveIPs_forgetsFlag(c) ==
    IF ~c.ipResolved
    THEN [c EXCEPT !.ipAddresses = Resolve(c.conf, c.r)]
    ELSE c

\* the lazy resolution with the headers honoured whatever the trust flag
resolveIPs_trustsHeaders(c) ==
    IF ~c.ipResolved
    THEN [c EXCEPT !.ipAddresses = Resolve([c.conf EXCEPT !.trust = TRUE], c.r),
                   !.ipResolved = TRUE]
    ELSE c

\* the lazy resolution at the head of ClientIP and RemoteIP
resolveIPs(c) ==
    IF ~c.ipResolved
    THEN [c EXCEPT !.ipAddresses = Resolve(c.conf, c.r), !.ipResolved = TRUE]
    ELSE c

\* ClientIP and RemoteIP: the Context after the call, and the value returned
ClientIP(c) == [c |-> resolveIPs(c), v |-> resolveIPs(c).ipAddresses[1]]
RemoteIP(c) ==
    [c |-> resolveIPs(c), v |-> resolveIPs(c).ipAddresses[Len(resolveIPs(c).ipAddresses)]]

\* the record of one call on the Context: its argument and what it returned
Out(op, arg, v) == [op |-> op, arg |-> arg, v |-> v]

HandleRequest ==
    \* the resolver's header names in order and its trust flag; a remote
    \* address of host 9 port 8, of host 2 port 8, or without a port
    \E headers \in {<<>>, <<"X-Forwarded-For">>, <<"Forwarded">>,
                    <<"X-Forwarded-For", "Forwarded">>, <<"Forwarded", "X-Forwarded-For">>},
       trust \in BOOLEAN,
       addr \in {<<"9", ":", "8">>, <<"2", ":", "8">>, <<"x">>},
       xff \in ForwardVals, fwd \in ForwardVals :
        /\ ~ctx.live
        /\ ctx' = NewContext([headers |-> headers, trust |-> trust], Request(addr, xff, fwd), 0)
        /\ UNCHANGED <<resolves, outs>>

\* a call of ClientIP or RemoteIP; Resolve runs when the Context has not
\* resolved yet, and its result is recorded
CallIP(op, o) ==
    /\ ctx.live
    /\ Len(outs) < MaxCtxCalls
    /\ ctx' = o.c
    /\ resolves' = IF ctx.ipResolved THEN resolves
                   ELSE Append(resolves, [conf |-> ctx.conf, r |-> ctx.r,
                                          result |-> o.c.ipAddresses])
    /\ outs' = Append(outs, Out(op, <<>>, o.v))

CallClientIP == CallIP("ClientIP", ClientIP(ctx))
CallRemoteIP == CallIP("RemoteIP", RemoteIP(ctx))

IPNext ==
    \/ HandleRequest /\ UNCHANGED respVars /\ UNCHANGED regVars /\ UNCHANGED dispVars
                     /\ UNCHANGED callVars
                     /\ UNCHANGED storeVars /\ UNCHANGED valVars
    \/ CallClientIP /\ UNCHANGED respVars /\ UNCHANGED regVars /\ UNCHANGED dispVars
                    /\ UNCHANGED callVars
                    /\ UNCHANGED storeVars /\ UNCHANGED valVars
    \/ CallRemoteIP /\ UNCHANGED respVars /\ UNCHANGED regVars /\ UNCHANGED dispVars
                    /\ UNCHANGED callVars
                    /\ UNCHANGED storeVars /\ UNCHANGED valVars

(***************************************************************************)
(* Conditional requests (context.go, util.go)                              *)
(***************************************************************************)
\* http.ParseTime of the values of If-Modified-Since
ParseTime(v) ==
    CASE v = "Mon, 01 Jan 0001 00:00:01 GMT" -> [t |-> 1 * TicksPerSecond, err |-> Nil]
      [] v = "Mon, 01 Jan 0001 00:00:02 GMT" -> [t |-> 2 * TicksPerSecond, err |-> Nil]
      [] OTHER -> [t |-> 0, err |-> "ErrParse"]

\* t.UTC().Format(http.TimeFormat) of a time of whole seconds
FormatTime(t) ==
    "Mon, 01 Jan 0001 00:00:0" \o Digit(t \div TicksPerSecond) \o " GMT"

LastModified(r, t) == HeaderSet(r, "Last-Modified", FormatTime(t))

\* t.Truncate(time.Second)
Truncate(t) == t - (t % TicksPerSecond)

\* maxTime: the latest of the times after the zero time, or the zero time
RECURSIVE maxTimeFrom(_, _)
maxTimeFrom(mt, t) ==
    IF t = <<>> THEN mt
    ELSE maxTimeFrom(IF Head(t) > mt THEN Head(t) ELSE mt, Tail(t))

maxTime(t) == maxTimeFrom(0, t)

\* IfModifiedSince: (time, ok, err)
IfModifiedSince(c) ==
    LET ims == c.r.Header["If-Modified-Since"]
    IN  IF ims = "" THEN [t |-> 0, ok |-> FALSE, err |-> Nil]
        ELSE IF ParseTime(ims).err # Nil
        THEN [t |-> 0, ok |-> FALSE, err |-> ParseTime(ims).err]
        ELSE [t |-> ParseTime(ims).t, ok |-> TRUE, err |-> Nil]

ErrorDto(code, message) == [Code |-> code, Message |-> message]

\* ConditionalIfMatch that compares the header with the bare tag
ConditionalIfMatch_unquoted(c, localEtag) ==
    LET remoteEtag == c.r.Header["If-Match"]
    IN  IF remoteEtag = "" \/ localEtag = remoteEtag
        THEN NilResponse
        ELSE Ptr(PreconditionFailed(Respond))

ConditionalIfMatch(c, localEtag) ==
    LET remoteEtag == c.r.Header["If-Match"]
    IN  IF remoteEtag = "" \/ ("\"" \o localEtag \o "\"") = remoteEtag
        THEN NilResponse
        ELSE Ptr(PreconditionFailed(Respond))

\* ConditionalIfNoneMatch that answers 304 whatever the method
ConditionalIfNoneMatch_anyMethod(c, localEtag) ==
    LET remoteEtag == c.r.Header["If-None-Match"]
    IN  IF remoteEtag = "" \/ ("\"" \o localEtag \o "\"") # remoteEtag
        THEN NilResponse
        ELSE Ptr(ETag(NotModified(Respond), localEtag))

ConditionalIfNoneMatch(c, localEtag) ==
    LET remoteEtag == c.r.Header["If-None-Match"]
    IN  IF remoteEtag = "" \/ ("\"" \o localEtag \o "\"") # remoteEtag
        THEN NilResponse
        ELSE IF c.r.Method = "GET" \/ c.r.Method = "HEAD"
        THEN Ptr(ETag(NotModified(Respond), localEtag))
        ELSE Ptr(PreconditionFailed(Respond))

\* ConditionalIfModifiedSince that compares without truncating to seconds
ConditionalIfModifiedSince_untruncated(c, lastModified) ==
    LET i == IfModifiedSince(c)
        lm == maxTime(lastModified)
    IN  IF i.err # Nil
        THEN Ptr(statusWithBody(Respond, StatusBadRequest,
                 <<ErrorDto("BadRequest", "invalid value for 'If-Modified-Since'")>>))
        ELSE IF ~i.ok THEN NilResponse
        ELSE IF lm > i.t THEN NilResponse
        ELSE Ptr(LastModified(NotModified(Respond), Truncate(lm)))

ConditionalIfModifiedSince(c, lastModified) ==
    LET i == IfModifiedSince(c)
        lm == Truncate(maxTime(lastModified))
    IN  IF i.err # Nil
        THEN Ptr(statusWithBody(Respond, StatusBadRequest,
                 <<ErrorDto("BadRequest", "invalid value for 'If-Modified-Since'")>>))
        ELSE IF ~i.ok THEN NilResponse
        ELSE IF lm > i.t THEN NilResponse
        ELSE Ptr(LastModified(NotModified(Respond), lm))

HandleConditionalRequest ==
    \* If-Modified-Since is absent, not a date, or one of two dates
    \E method \in {"GET", "HEAD", "POST"}, im \in EtagHeaderVals, inm \in EtagHeaderVals,
       ims \in {"", "yesterday", "Mon, 01 Jan 0001 00:00:01 GMT",
                "Mon, 01 Jan 0001 00:00:02 GMT"} :
        /\ ~ctx.live
        /\ ctx' = NewContext([headers |-> <<>>, trust |-> FALSE],
                     [Request(<<"9", ":", "8">>, <<>>, <<>>) EXCEPT
                        !.Method = method,
                        !.Header = [@ EXCEPT !["If-Match"] = im,
                                             !["If-None-Match"] = inm,
                                             !["If-Modified-Since"] = ims]], 0)
        /\ UNCHANGED <<resolves, outs>>

\* a call of a helper that only reads the request: one call per Context
CallHelper(op, arg, res) ==
    /\ ctx.live
    /\ outs = <<>>
    /\ outs' = <<Out(op, arg, res)>>
    /\ UNCHANGED <<ctx, resolves>>

CallConditionalIfMatch ==
    \E tag \in Etags : CallHelper("ConditionalIfMatch", tag, ConditionalIfMatch(ctx, tag))

CallConditionalIfNoneMatch ==
    \E tag \in Etags :
        CallHelper("ConditionalIfNoneMatch", tag, ConditionalIfNoneMatch(ctx, tag))

CallConditionalIfModifiedSince ==
    \E ts \in SeqsUpTo(0..MaxTime, MaxTimestamps) :
        CallHelper("ConditionalIfModifiedSince", ts, ConditionalIfModifiedSince(ctx, ts))

(***************************************************************************)
(* BindJSON (context.go).  An error value is the pair of its dynamic type   *)
(* and its pointer: the nil error has no type, and a nil *ValidationError   *)
(* returned as an error has a type and a nil pointer.                       *)
(***************************************************************************)
ErrorValue(type, val) == [type |-> type, val |-> val]

\* destinations: a pointer to a struct without Validate, a struct passed by
\* value, and pointers to structs whose Validate returns nil, one of two
\* ValidationErrors, a nil *ValidationError, or another error
Destinations ==
    {[kind |-> "plain", validate |-> ErrorValue(Nil, Nil)],
     [kind |-> "nonPointer", validate |-> ErrorValue(Nil, Nil)]}
    \cup [kind : {"validatable"},
          validate : {ErrorValue(Nil, Nil),
                      ErrorValue("*ValidationError", "ve1"),
                      ErrorValue("*ValidationError", "ve2"),
                      ErrorValue("*ValidationError", Nil),
                      ErrorValue("*errors.errorString", "boom")}]

\* json.Unmarshal(b, data) into a struct: the error it returns
Unmarshal(b, data) ==
    CASE b \in {" ", "{bad"} -> "SyntaxError"
      [] data.kind = "nonPointer" -> "InvalidUnmarshalError"
      [] b = "[1]" -> "UnmarshalTypeError"
      [] OTHER -> Nil

respondError(statusCode, code, message) ==
    Json(Status(Respond, statusCode), ErrorDto(code, message))

respondInternalServerError(err) ==
    respondError(StatusInternalServerError, "InternalServerError", err)

\* what BindJSON returns: a *Response as Ptr makes it, and the calls made
Bound(isNil, r, steps) == [isNil |-> isNil, v |-> r, steps |-> steps]

\* BindJSON without the test for an empty body
BindJSON_noEmptyTest(c, data) ==
    LET b == c.r.Body
    IN  IF b.err # Nil
        THEN Bound(FALSE, respondInternalServerError(b.err), <<"ReadAll">>)
        ELSE IF Unmarshal(b.data, data) # Nil
        THEN Bound(FALSE, respondError(StatusBadRequest, "InvalidRequestBody",
                                       Unmarshal(b.data, data)),
                   <<"ReadAll", "Unmarshal">>)
        ELSE IF data.kind = "validatable" /\ data.validate.type # Nil
        THEN IF data.validate.type = "*ValidationError"
             THEN Bound(FALSE, statusWithBody(Respond, StatusBadRequest, <<data.validate>>),
                        <<"ReadAll", "Unmarshal", "Validate">>)
             ELSE Bound(FALSE, respondError(StatusBadRequest, "BadRequest", data.validate.val),
                        <<"ReadAll", "Unmarshal", "Validate">>)
        ELSE Bound(TRUE, Respond,
                   IF data.kind = "validatable"
                   THEN <<"ReadAll", "Unmarshal", "Validate">>
                   ELSE <<"ReadAll", "Unmarshal">>)

\* BindJSON(data) on a request whose body reads as c.r.Body
BindJSON(c, data) ==
    LET b == c.r.Body
    IN  IF b.err # Nil
        THEN Bound(FALSE, respondInternalServerError(b.err), <<"ReadAll">>)
        ELSE IF b.data = ""
        THEN Bound(FALSE, respondError(StatusBadRequest, "RequestBodyMissing",
                                       "request body is missing"),
                   <<"ReadAll">>)
        ELSE IF Unmarshal(b.data, data) # Nil
        THEN Bound(FALSE, respondError(StatusBadRequest, "InvalidRequestBody",
                                       Unmarshal(b.data, data)),
                   <<"ReadAll", "Unmarshal">>)
        ELSE IF data.kind = "validatable" /\ data.validate.type # Nil
        THEN IF data.validate.type = "*ValidationError"
             THEN Bound(FALSE, statusWithBody(Respond, StatusBadRequest, <<data.validate>>),
                        <<"ReadAll", "Unmarshal", "Validate">>)
             ELSE Bound(FALSE, respondError(StatusBadRequest, "BadRequest", data.validate.val),
                        <<"ReadAll", "Unmarshal", "Validate">>)
        ELSE Bound(TRUE, Respond,
                   IF data.kind = "validatable"
                   THEN <<"ReadAll", "Unmarshal", "Validate">>
                   ELSE <<"ReadAll", "Unmarshal">>)

HandleBodyRequest ==
    \* the body: empty, blank, malformed, an object, null, an array; and
    \* whether reading it fails
    \E data \in {"", " ", "{bad", "{\"a\":1}", "null", "[1]"}, err \in {Nil, "ErrRead"} :
        /\ ~ctx.live
        /\ ctx' = NewContext([headers |-> <<>>, trust |-> FALSE],
                     [Request(<<"9", ":", "8">>, <<>>, <<>>) EXCEPT
                        !.Method = "POST",
                        !.Body = [data |-> data, err |-> err]], 0)
        /\ UNCHANGED <<resolves, outs>>

\* a call of BindJSON: io.ReadAll leaves nothing of the body to read again
CallBindJSON ==
    \E data \in Destinations :
        /\ ctx.live
        /\ Len(outs) < MaxCtxCalls
        /\ outs' = Append(outs, Out("BindJSON", [data |-> data, body |-> ctx.r.Body],
                                    BindJSON(ctx, data)))
        /\ ctx' = [ctx EXCEPT !.r.Body.data = ""]
        /\ UNCHANGED resolves

BindNext ==
    \/ HandleBodyRequest /\ UNCHANGED respVars /\ UNCHANGED regVars
                         /\ UNCHANGED dispVars /\ UNCHANGED callVars
                         /\ UNCHANGED storeVars /\ UNCHANGED valVars
    \/ CallBindJSON /\ UNCHANGED respVars /\ UNCHANGED regVars
                    /\ UNCHANGED dispVars /\ UNCHANGED callVars
                    /\ UNCHANGED storeVars /\ UNCHANGED valVars

ConditionalNext ==
    \/ HandleConditionalRequest /\ UNCHANGED respVars /\ UNCHANGED regVars
                                /\ UNCHANGED dispVars /\ UNCHANGED callVars
                                /\ UNCHANGED storeVars /\ UNCHANGED valVars
    \/ CallConditionalIfMatch /\ UNCHANGED respVars /\ UNCHANGED regVars
                              /\ UNCHANGED dispVars /\ UNCHANGED callVars
                              /\ UNCHANGED storeVars /\ UNCHANGED valVars
    \/ CallConditionalIfNoneMatch /\ UNCHANGED respVars /\ UNCHANGED regVars
                                  /\ UNCHANGED dispVars /\ UNCHANGED callVars
                                  /\ UNCHANGED storeVars /\ UNCHANGED valVars
    \/ CallConditionalIfModifiedSince /\ UNCHANGED respVars /\ UNCHANGED regVars
                                      /\ UNCHANGED dispVars /\ UNCHANGED callVars
                                      /\ UNCHANGED storeVars /\ UNCHANGED valVars

(***************************************************************************)
(* The Contexts of the requests in flight: the value store and the query   *)
(* parameters (context.go), created per dispatch by wrap.                  *)
(***************************************************************************)
\* a Set that keeps the value a key already has
Set_keepsFirst(c, key, value, h) ==
    IF key \in DOMAIN h[c.values]
    THEN h
    ELSE [h EXCEPT ![c.values] = [x \in DOMAIN @ \cup {key} |->
                                    IF x = key THEN value ELSE @[x]]]

\* c.values[key] = value, on the map c.values refers to in h
Set(c, key, value, h) ==
    [h EXCEPT ![c.values] = [x \in DOMAIN @ \cup {key} |->
                                IF x = key THEN value ELSE @[x]]]

\* v, ok := c.values[key]
Get(c, key, h) ==
    IF key \in DOMAIN h[c.values]
    THEN [v |-> h[c.values][key], ok |-> TRUE]
    ELSE [v |-> Nil, ok |-> FALSE]

MustGet(c, key, h) ==
    IF ~Get(c, key, h).ok
    THEN Panicked("didn't find key '" \o key \o "' in context")
    ELSE Returned(Get(c, key, h).v)

\* r.URL.Query(): the url.Values parsed from the raw query of the request
URLQuery(r) ==
    CASE r.RawQuery = "a=1" -> [x \in {"a"} |-> <<"1">>]
      [] r.RawQuery = "a=1&a=2&b=" ->
            [x \in {"a", "b"} |-> IF x = "a" THEN <<"1", "2">> ELSE <<"">>]
      [] OTHER -> <<>>

\* the head of HasQuery and of Query; parsed tells whether URL.Query() ran
parseQuery(c) ==
    IF ~c.queryParsed
    THEN [c |-> [c EXCEPT !.query = URLQuery(c.r)], parsed |-> TRUE]
    ELSE [c |-> c, parsed |-> FALSE]

\* c.query.Has(key)
HasQuery(c, key) ==
    [c |-> parseQuery(c).c, parsed |-> parseQuery(c).parsed,
     v |-> "", ok |-> key \in DOMAIN parseQuery(c).c.query]

\* c.query.Get(key): the first value of key, "" without one.  IntQuery,
\* IntQueryOrDefault, StringQuery and StringQueryOrDefault read the query
\* through this method only.
Query(c, key) ==
    LET q == parseQuery(c).c.query
    IN  [c |-> parseQuery(c).c, parsed |-> parseQuery(c).parsed,
         v |-> IF key \in DOMAIN q /\ q[key] # <<>> THEN q[key][1] ELSE "",
         ok |-> TRUE]

StoreInit ==
    /\ ctxs = <<>>
    /\ stores = <<>>
    /\ seen = <<>>

\* a dispatch whose Context refers to the map of the first request
Dispatch_sharesStore ==
    \E raw \in {"a=1", "a=1&a=2&b="} :
        /\ Len(ctxs) < MaxReqs
        /\ stores' = IF stores = <<>> THEN <<(<<>>)>> ELSE stores
        /\ ctxs' = Append(ctxs, NewContext([headers |-> <<>>, trust |-> FALSE],
                                   [Request(<<"9", ":", "8">>, <<>>, <<>>) EXCEPT
                                       !.RawQuery = raw],
                                   1))
        /\ UNCHANGED seen

\* the function wrap registered runs for one more request: NewContext makes
\* its Context and the map of its values
Dispatch ==
    \E raw \in {"a=1", "a=1&a=2&b="} :
        /\ Len(ctxs) < MaxReqs
        /\ stores' = Append(stores, <<>>)
        /\ ctxs' = Append(ctxs, NewContext([headers |-> <<>>, trust |-> FALSE],
                                   [Request(<<"9", ":", "8">>, <<>>, <<>>) EXCEPT
                                       !.RawQuery = raw],
                                   Len(stores) + 1))
        /\ UNCHANGED seen

\* one entry of seen: the call op(key, arg) on the Context of request req, the
\* map of its values before and after, and what the call returned
Seen(req, op, key, arg, before, after, o) ==
    [req |-> req, op |-> op, key |-> key, arg |-> arg,
     before |-> before, after |-> after, o |-> o]

\* the handler of one of the requests in flight makes its next call
CallSet ==
    \* one key set to one of two values, another set to nil
    \E i \in 1..Len(ctxs), kv \in {<<"k", "v1">>, <<"k", "v2">>, <<"j", Nil>>} :
        /\ Len(seen) < MaxStoreCalls
        /\ stores' = Set(ctxs[i], kv[1], kv[2], stores)
        /\ seen' = Append(seen, Seen(i, "Set", kv[1], kv[2], stores[ctxs[i].values],
                                     stores'[ctxs[i].values], Nil))
        /\ UNCHANGED ctxs

CallGet ==
    \E i \in 1..Len(ctxs), key \in {"k", "j"} :
        /\ Len(seen) < MaxStoreCalls
        /\ seen' = Append(seen, Seen(i, "Get", key, Nil, stores[ctxs[i].values],
                                     stores[ctxs[i].values], Get(ctxs[i], key, stores)))
        /\ UNCHANGED <<ctxs, stores>>

CallMustGet ==
    \E i \in 1..Len(ctxs), key \in {"k", "j"} :
        /\ Len(seen) < MaxStoreCalls
        /\ seen' = Append(seen, Seen(i, "MustGet", key, Nil, stores[ctxs[i].values],
                                     stores[ctxs[i].values], MustGet(ctxs[i], key, stores)))
        /\ UNCHANGED <<ctxs, stores>>

CallHasQuery ==
    \E i \in 1..Len(ctxs), key \in {"b"} :
        /\ Len(seen) < MaxStoreCalls
        /\ ctxs' = [ctxs EXCEPT ![i] = HasQuery(@, key).c]
        /\ seen' = Append(seen, Seen(i, "HasQuery", key, Nil, stores[ctxs[i].values],
                                     stores[ctxs[i].values],
                                     [HasQuery(ctxs[i], key) EXCEPT !.c = Nil]))
        /\ UNCHANGED stores

CallQuery ==
    \E i \in 1..Len(ctxs), key \in {"a"} :
        /\ Len(seen) < MaxStoreCalls
        /\ ctxs' = [ctxs EXCEPT ![i] = Query(@, key).c]
        /\ seen' = Append(seen, Seen(i, "Query", key, Nil, stores[ctxs[i].values],
                                     stores[ctxs[i].values],
                                     [Query(ctxs[i], key) EXCEPT !.c = Nil]))
        /\ UNCHANGED stores

StoreNext ==
    \/ Dispatch /\ UNCHANGED valVars /\ UNCHANGED respVars /\ UNCHANGED regVars
                /\ UNCHANGED dispVars /\ UNCHANGED callVars /\ UNCHANGED ctxVars
    \/ CallSet /\ UNCHANGED valVars /\ UNCHANGED respVars /\ UNCHANGED regVars
               /\ UNCHANGED dispVars /\ UNCHANGED callVars /\ UNCHANGED ctxVars
    \/ CallGet /\ UNCHANGED valVars /\ UNCHANGED respVars /\ UNCHANGED regVars
               /\ UNCHANGED dispVars /\ UNCHANGED callVars /\ UNCHANGED ctxVars
    \/ CallMustGet /\ UNCHANGED valVars /\ UNCHANGED respVars /\ UNCHANGED regVars
                   /\ UNCHANGED dispVars /\ UNCHANGED callVars /\ UNCHANGED ctxVars
    \/ CallHasQuery /\ UNCHANGED valVars /\ UNCHANGED respVars /\ UNCHANGED regVars
                    /\ UNCHANGED dispVars /\ UNCHANGED callVars /\ UNCHANGED ctxVars
    \/ CallQuery /\ UNCHANGED valVars /\ UNCHANGED respVars /\ UNCHANGED regVars
                 /\ UNCHANGED dispVars /\ UNCHANGED callVars /\ UNCHANGED ctxVars

(***************************************************************************)
(* Validation checks (validator.go).  A *ValidationError is an index in    *)
(* verrs, the ValidationErrors allocated so far, and 0 when it is nil.     *)
(***************************************************************************)
\* a merge that copies prev into a new ValidationError
merge_allocates(prev, v, h) ==
    [h |-> Append(h, [Code |-> "invalid_data", Message |-> "Invalid data",
                      Errors |-> IF prev # 0 THEN h[prev].Errors \o v ELSE v]),
     p |-> Len(h) + 1]

\* merge(prev, v...): the ValidationErrors after the call and the pointer
\* returned
merge(prev, v, h) ==
    IF prev # 0
    THEN [h |-> [h EXCEPT ![prev].Errors = @ \o v], p |-> prev]
    ELSE [h |-> Append(h, [Code |-> "invalid_data", Message |-> "Invalid data",
                           Errors |-> v]),
          p |-> Len(h) + 1]

Violation(field, code, message) ==
    [Field |-> field, Code |-> code, Message |-> message]

\* a Require that forgets prev when the condition holds
Require_forgetsOnPass(field, code, message, cond, prev, h) ==
    IF cond
    THEN [h |-> h, p |-> 0]
    ELSE merge(prev, <<Violation(field, code, message)>>, h)

Require(field, code, message, cond, prev, h) ==
    IF cond
    THEN [h |-> h, p |-> prev]
    ELSE merge(prev, <<Violation(field, code, message)>>, h)

\* Validate(v): the error returned
Validate(v) ==
    IF v = 0 THEN ErrorValue(Nil, Nil) ELSE ErrorValue("*ValidationError", v)

ValInit ==
    /\ verrs = <<>>
    /\ vcur = 0
    /\ vlog = <<>>

\* one entry of vlog: a call, the *ValidationError passed to it, the
\* ValidationErrors before and after it, and what it returned
Checked(op, cond, violation, prev, before, after, o) ==
    [op |-> op, cond |-> cond, violation |-> violation, prev |-> prev,
     before |-> before, after |-> after, o |-> o]

\* the next check of a chain v = Require(..., v)
CallRequire ==
    \E field \in {"name", "age"}, code \in {"required", "too_short"}, cond \in BOOLEAN :
        LET res == Require(field, code, "m", cond, vcur, verrs)
        IN  /\ Len(vlog) < MaxChecks
            /\ verrs' = res.h
            /\ vcur' = res.p
            /\ vlog' = Append(vlog, Checked("Require", cond, Violation(field, code, "m"),
                                            vcur, verrs, res.h, res.p))

\* Validate(v) on the value the chain has reached
CallValidate ==
    /\ Len(vlog) < MaxChecks
    /\ vlog' = Append(vlog, Checked("Validate", TRUE, Nil, vcur, verrs, verrs,
                                    Validate(vcur)))
    /\ UNCHANGED <<verrs, vcur>>

ValNext ==
    \/ CallRequire /\ UNCHANGED storeVars /\ UNCHANGED respVars /\ UNCHANGED regVars
                   /\ UNCHANGED dispVars /\ UNCHANGED callVars /\ UNCHANGED ctxVars
    \/ CallValidate /\ UNCHANGED storeVars /\ UNCHANGED respVars /\ UNCHANGED regVars
                    /\ UNCHANGED dispVars /\ UNCHANGED callVars /\ UNCHANGED ctxVars

(***************************************************************************)
(* Specifications.                                                         *)
(***************************************************************************)
RegInit ==
    /\ heap = <<>>
    /\ srvMw = EmptySlice
    /\ groups = <<>>
    /\ routes = <<>>

Init == RespInit /\ RegInit /\ Idle /\ CallInit /\ CtxInit /\ StoreInit /\ ValInit

\* Spec: a Server is set up: Use, Group and route registrations in any order
Next ==
    \/ Use /\ UNCHANGED dispVars /\ UNCHANGED respVars /\ UNCHANGED callVars
           /\ UNCHANGED ctxVars
           /\ UNCHANGED storeVars /\ UNCHANGED valVars
    \/ ServerGroup /\ UNCHANGED dispVars /\ UNCHANGED respVars /\ UNCHANGED callVars
                   /\ UNCHANGED ctxVars
                   /\ UNCHANGED storeVars /\ UNCHANGED valVars
    \/ GroupGroup /\ UNCHANGED dispVars /\ UNCHANGED respVars /\ UNCHANGED callVars
                  /\ UNCHANGED ctxVars
                  /\ UNCHANGED storeVars /\ UNCHANGED valVars
    \/ ServerHandleMethod /\ UNCHANGED dispVars /\ UNCHANGED respVars /\ UNCHANGED callVars
                          /\ UNCHANGED ctxVars
                          /\ UNCHANGED storeVars /\ UNCHANGED valVars
    \/ GroupHandleMethod /\ UNCHANGED dispVars /\ UNCHANGED respVars /\ UNCHANGED callVars
                         /\ UNCHANGED ctxVars
                         /\ UNCHANGED storeVars /\ UNCHANGED valVars

Spec == Init /\ [][Next]_vars

\* SpecDispatch: routes with up to MaxChain middleware are registered on a
\* new Server and requests are dispatched to them, one at a time
RegisterChain == ServerHandleMethodOf(MwLists)

DispatchNext ==
    \/ RegisterChain /\ UNCHANGED dispVars /\ UNCHANGED respVars /\ UNCHANGED callVars
                     /\ UNCHANGED ctxVars
                     /\ UNCHANGED storeVars /\ UNCHANGED valVars
    \/ Begin /\ UNCHANGED regVars /\ UNCHANGED respVars /\ UNCHANGED callVars
             /\ UNCHANGED ctxVars
             /\ UNCHANGED storeVars /\ UNCHANGED valVars
    \/ MwCallsNext /\ UNCHANGED regVars /\ UNCHANGED respVars /\ UNCHANGED callVars
                   /\ UNCHANGED ctxVars
                   /\ UNCHANGED storeVars /\ UNCHANGED valVars
    \/ MwRejects /\ UNCHANGED regVars /\ UNCHANGED respVars /\ UNCHANGED callVars
                 /\ UNCHANGED ctxVars
                 /\ UNCHANGED storeVars /\ UNCHANGED valVars
    \/ HandlerRuns /\ UNCHANGED regVars /\ UNCHANGED respVars /\ UNCHANGED callVars
                   /\ UNCHANGED ctxVars
                   /\ UNCHANGED storeVars /\ UNCHANGED valVars
    \/ MwReturns /\ UNCHANGED regVars /\ UNCHANGED respVars /\ UNCHANGED callVars
                 /\ UNCHANGED ctxVars
                 /\ UNCHANGED storeVars /\ UNCHANGED valVars
    \/ WrapperWrites /\ UNCHANGED regVars /\ UNCHANGED respVars /\ UNCHANGED callVars
                     /\ UNCHANGED ctxVars
                     /\ UNCHANGED storeVars /\ UNCHANGED valVars
    \/ EndDispatch /\ UNCHANGED regVars /\ UNCHANGED respVars /\ UNCHANGED callVars
                   /\ UNCHANGED ctxVars
                   /\ UNCHANGED storeVars /\ UNCHANGED valVars

SpecDispatch == Init /\ [][DispatchNext]_vars

\* SpecWrite: one Response is built and written
SpecWrite == Init /\ [][RespNext]_vars

\* a Response built by body setters, callbacks and mutator calls
SpecMutate == Init /\ [][MutateNext]_vars

\* SpecCommit: a Response is given Via headers, cookies, a status and a body
\* and is then written
SpecCommit == Init /\ [][CommitNext]_vars

\* one request, and ClientIP and RemoteIP calls on its Context
SpecIP == Init /\ [][IPNext]_vars

\* one request, and a conditional-request helper called on its Context
SpecConditional == Init /\ [][ConditionalNext]_vars

\* one request, and BindJSON calls on its Context
SpecBind == Init /\ [][BindNext]_vars

\* SpecStore: requests in flight, the calls of their handlers on their own
\* Contexts interleaved in any order
SpecStore == Init /\ [][StoreNext]_vars

\* SpecValidate: one chain of Require checks threaded from nil, with Validate
\* called on the value reached at any point
SpecValidate == Init /\ [][ValNext]_vars

(***************************************************************************)
(* Properties.                                                             *)
(***************************************************************************)
IsPrefix(a, b) == Len(a) <= Len(b) /\ a = SubSeq(b, 1, Len(a))

\* trace[p] is a middleware entered that returned without calling next
Rejected(p) ==
    /\ p < Len(trace)
    /\ trace[p].ev = "enter"
    /\ trace[p].f \in MwIds
    /\ trace[p + 1].ev = "exit"
    /\ trace[p + 1].d = trace[p].d

SomeRejected == \E p \in 1..Len(trace) : Rejected(p)

\* the LoggingMiddleware calls entered before trace[p]
LoggersOutside(p) ==
    Cardinality({q \in 1..(p - 1) : trace[q].ev = "enter" /\ trace[q].f = "logging"})

\* the Response of the rejecting middleware with one callback attached by
\* each of k LoggingMiddleware around it
RejectResponse(k) ==
    [Unauthorized(Respond, <<>>) EXCEPT !.afterWrite = [i \in 1..k |-> "log"]]

\* C1: when a middleware of the chain returns without calling next, nothing
\* deeper in the chain (no later middleware, not the handler) is entered
\* during that dispatch, the dispatch does not panic, and what is written to
\* the sink is that middleware's Response as wrapped by the middleware
\* around it.
C1_ShortCircuit ==
    \A p \in 1..Len(trace) :
        Rejected(p) =>
            /\ \A q \in 1..Len(trace) : trace[q].d <= trace[p].d
            /\ \A q \in (p + 2)..Len(trace) : trace[q].ev = "exit"
            /\ pc # "panicked"
            /\ pc = "done" =>
                  \E e \in SinkErrs :
                      writes = <<Write(RejectResponse(LoggersOutside(p)), e)>>

C1_Witness ==
    /\ pc = "done"
    /\ Len(routes[cur].h.closures) = 3
    /\ trace[1].f = "logging"
    /\ Rejected(2)

\* the functions entered and left, without the results
Shape(t) == [j \in 1..Len(t) |-> [ev |-> t[j].ev, d |-> t[j].d, f |-> t[j].f]]

\* m0 .. mk entered in order, then h entered and left, then mk .. m0 left
ExpectedShape(chain, h) ==
    LET n == Len(chain)
    IN  [j \in 1..(2 * n + 2) |->
           IF j <= n THEN [ev |-> "enter", d |-> j - 1, f |-> chain[j]]
           ELSE IF j = n + 1 THEN [ev |-> "enter", d |-> n, f |-> h]
           ELSE IF j = n + 2 THEN [ev |-> "exit", d |-> n, f |-> h]
           ELSE [ev |-> "exit", d |-> 2 * n + 2 - j, f |-> chain[2 * n + 3 - j]]]

\* C2: in a dispatch in which every middleware entered calls next, the
\* functions run are the middleware the route was registered with, entered
\* in order, then the handler, and they return in the reverse order: at
\* every moment what has run is the beginning of that sequence, and when
\* the dispatch is done it is all of it.
C2_NestingOrder ==
    (pc # "idle" /\ ~SomeRejected) =>
        LET want == ExpectedShape(routes[cur].exp, routes[cur].h.handler)
        IN  /\ IsPrefix(Shape(trace), want)
            /\ pc = "done" => Shape(trace) = want

C2_Witness ==
    /\ pc = "done"
    /\ ~SomeRejected
    /\ routes[cur].exp = <<"logging", "auth", "logging">>

\* C3: with only Server.Use and Server route registrations made, the
\* middleware a dispatch of any registered route runs is the Server's list
\* as it was at that route's registration followed by the route's own.
C3_ChainFixed ==
    groups = <<>> => \A i \in 1..Len(routes) : Chain(i) = routes[i].exp

\* C4: a route registered on a group runs the parent's middleware as of the
\* group's creation, the group's own and then the route's, whatever was
\* created or registered since, and its path starts with the group's
\* prefix, which is the parent's prefix followed by the group's path.
C4_GroupChains ==
    /\ \A i \in 1..Len(routes) :
          routes[i].owner > 0 =>
              /\ Chain(i) = routes[i].exp
              /\ IsPrefix(groups[routes[i].owner].basePath, routes[i].pattern.path)
    /\ \A g \in 1..Len(groups) :
          groups[g].owner > 0 =>
              IsPrefix(groups[groups[g].owner].basePath, groups[g].basePath)

\* C5: the wrapper calls Write at most once per dispatch; a dispatch that
\* is done had a non-nil Response and made exactly one Write call, on that
\* Response, logging its error if it returned one; the wrapper panics only
\* on a nil Response, so never after a Write that returned an error.
C5_OneCommit ==
    /\ Len(writes) <= 1
    /\ pc # "done" => writes = <<>>
    /\ pc = "done" =>
          /\ ~ret.isNil
          /\ \E e \in SinkErrs : writes = <<Write(ret.v, e)>>
          /\ errlog = IF writes[1].err # Nil THEN <<writes[1].err>> ELSE <<>>
    /\ pc = "panicked" => ret.isNil /\ errlog = <<>>

C5_Witness ==
    /\ pc = "done"
    /\ writes[1].err = "ErrSink"
    /\ errlog = <<"ErrSink">>

HandlerReturnedNil ==
    \E p \in 1..Len(trace) :
        trace[p].ev = "exit" /\ trace[p].f \in Handlers /\ trace[p].isNil

NilOutcome ==
    HandlerReturnedNil =>
        /\ pc \in {"ret", "panicked"}
        /\ writes = <<>>
        /\ ret.isNil

\* C6: once the handler has returned nil, the value going up the chain
\* stays nil (nothing is substituted), Write is never called, the dispatch
\* never completes normally, and the wrapper, when the nil reaches it,
\* panics.
C6_NilAborts ==
    [][/\ NilOutcome'
       /\ (HandlerReturnedNil /\ pc = "ret" /\ frames = <<>>) => pc' = "panicked"]_vars

C6_Witness ==
    /\ pc = "panicked"
    /\ HandlerReturnedNil
    /\ Len(routes[cur].h.closures) = 2
    /\ frames = <<>>

StepsOf(op) == SelectSeq(wres.steps, LAMBDA x : x.op = op)

\* C7: with no streaming writer set, Write writes exactly the body of the
\* last Json, Html, Text or Body call (for Json, the encoding of its value)
\* and the sink gets the Content-Type that call set.
C7_LastBodyWins ==
    (/\ wstate = "written"
     /\ resp.bodyFn = Nil
     /\ \/ lastBody.kind = "raw"
        \/ lastBody.kind = "json" /\ lastBody.val = "obj") =>
        /\ Len(StepsOf("write")) = 1
        /\ StepsOf("write")[1].data =
              (IF lastBody.kind = "raw" THEN lastBody.val ELSE Marshal(lastBody.val).b)
        /\ wres.hdr["Content-Type"] = <<lastBody.ct>>

\* C8: with a streaming writer set, Write calls it exactly once, writes no
\* raw or serialized body, and returns what the writer returned, whatever
\* raw or structured body is also set.
C8_StreamingAlone ==
    (wstate = "written" /\ resp.bodyFn # Nil) =>
        /\ StepsOf("write") = <<>>
        /\ Len(StepsOf("bodyFn")) = 1
        /\ StepsOf("bodyFn")[1].data = resp.bodyFn
        /\ wres.err = CallBodyFn(resp.bodyFn)

\* C9: what a Write call did ends with one call of each registered
\* callback, in registration order, and no callback runs before the
\* marshal, status and body steps, whether Write returned nil or an error.
C9_AfterWrite ==
    wstate = "written" =>
        LET n == Len(resp.afterWrite)
            k == Len(wres.steps) - n
        IN  /\ k >= 0
            /\ \A i \in 1..n :
                  /\ wres.steps[k + i].op = "after"
                  /\ wres.steps[k + i].data = resp.afterWrite[i]
            /\ \A j \in 1..k : wres.steps[j].op # "after"

C9_Witness ==
    /\ wstate = "written"
    /\ wres.err # Nil
    /\ resp.afterWrite = <<"cb1", "cb2">>

\* the marshal, streaming-writer and sink-write steps of the Write call
Attempts == SelectSeq(wres.steps, LAMBDA x : x.op \in {"marshal", "bodyFn", "write"})

\* C10: Write marshals at most once, calls the streaming writer at most
\* once and writes the body to the sink at most once; it returns an error
\* exactly when one of these steps returned one, the error is that step's,
\* and no such step follows the failed one.
C10_WriteError ==
    wstate = "written" =>
        /\ \A op \in {"marshal", "bodyFn", "write"} : Len(StepsOf(op)) <= 1
        /\ (wres.err # Nil) <=> (\E j \in 1..Len(Attempts) : Attempts[j].err # Nil)
        /\ \A j \in 1..Len(Attempts) :
              Attempts[j].err # Nil => (j = Len(Attempts) /\ wres.err = Attempts[j].err)

C10_Witness ==
    /\ wstate = "written"
    /\ wres.err = "ErrSink"
    /\ resp.jsonBody = "obj"

(***************************************************************************)
(* Status shorthands and range-checked setters.                            *)
(***************************************************************************)
JsonContentType == <<"application/json;charset=UTF-8">>

\* C11: a status shorthand sets StatusCode to its fixed code and leaves the
\* raw body, streaming writer, cookies and callbacks as they were; without a
\* body argument it also leaves the structured body and the headers as they
\* were; with one it sets the structured body to the first argument and the
\* Content-Type header to the JSON content type, and no other header.
C11_StatusShorthands ==
    mcall.op \in Shorthands =>
        LET b == mcall.before
            a == mcall.after
            code == CASE mcall.op = "Created" -> 201
                      [] mcall.op = "BadRequest" -> 400
                      [] mcall.op = "Unauthorized" -> 401
                      [] mcall.op = "Forbidden" -> 403
                      [] mcall.op = "NotFound" -> 404
                      [] mcall.op = "MethodNotAllowed" -> 405
                      [] mcall.op = "NotAcceptable" -> 406
                      [] mcall.op = "ProxyAuthRequired" -> 407
                      [] mcall.op = "Conflict" -> 409
                      [] mcall.op = "InternalServerError" -> 500
        IN  /\ ~mcall.panicked
            /\ a.StatusCode = code
            /\ a.rawBody = b.rawBody
            /\ a.bodyFn = b.bodyFn
            /\ a.cookies = b.cookies
            /\ a.afterWrite = b.afterWrite
            /\ IF mcall.body = <<>>
               THEN a.jsonBody = b.jsonBody /\ a.headers = b.headers
               ELSE /\ a.jsonBody = mcall.body[1]
                    /\ a.headers = [b.headers EXCEPT !["Content-Type"] = JsonContentType]

\* a shorthand was called without a body on a Response that had a structured
\* body, a raw body, a streaming writer, a cookie, a callback and a header
C11_Witness ==
    /\ mcall.op \in Shorthands
    /\ mcall.body = <<>>
    /\ mcall.before.jsonBody # Nil
    /\ mcall.before.afterWrite # <<>>
    /\ mcall.before.headers["Content-Type"] # <<>>
    /\ mcall.after.jsonBody # Nil

\* C12: Age(n) and AccessControlMaxAge(n) panic for n < 0 and leave the
\* Response as it was, and for n >= 0 return with their header set to the
\* decimal text of n and nothing else changed; no other mutator panics.
C12_RangeChecked ==
    LET b == mcall.before
        a == mcall.after
        name == IF mcall.op = "Age" THEN "Age" ELSE "Access-Control-Max-Age"
        decimal == CASE mcall.n = 0 -> "0" [] mcall.n = 10 -> "10"
                     [] mcall.n = 305 -> "305" [] OTHER -> "?"
    IN  IF mcall.op \in {"Age", "AccessControlMaxAge"}
        THEN IF mcall.n < 0
             THEN mcall.panicked /\ a = b
             ELSE /\ ~mcall.panicked
                  /\ a = [b EXCEPT !.headers = [@ EXCEPT ![name] = <<decimal>>]]
        ELSE ~mcall.panicked

\* Age or AccessControlMaxAge was called with a negative argument on a
\* Response whose Age header was already set
C12_Witness ==
    /\ mcall.op \in {"Age", "AccessControlMaxAge"}
    /\ mcall.n < 0
    /\ mcall.panicked
    /\ mcall.before.headers["Age"] # <<>>
    /\ resp = mcall.before

(***************************************************************************)
(* The IP resolver and the memoized addresses of a Context.                *)
(***************************************************************************)
\* the host part of each remote address, written out
ExpectedPeer(addr) ==
    CASE addr = <<"9", ":", "8">> -> <<"9">>
      [] addr = <<"2", ":", "8">> -> <<"2">>
      [] addr = <<"x">> -> <<>>

\* the valid addresses of each header value of ForwardVals, written out
ExpectedEntries(v) ==
    CASE v = <<>> -> <<>>
      [] v = <<"1">> -> << <<"1">> >>
      [] v = <<"1", ",", " ", "2">> -> << <<"1">>, <<"2">> >>
      [] v = <<"1", ",", "9">> -> << <<"1">>, <<"9">> >>
      [] v = <<"x", ",", "2">> -> << <<"2">> >>
      [] v = <<" ", "2", " ", ",">> -> << <<"2">> >>
      [] v = <<"x", "1">> -> <<>>

\* the header-derived addresses expected of the Resolve call e
ExpectedChain(e) ==
    IF ~e.conf.trust \/ e.conf.headers = <<>> THEN <<>>
    ELSE IF Len(e.conf.headers) = 1
    THEN ExpectedEntries(e.r.Header[e.conf.headers[1]])
    ELSE ExpectedEntries(e.r.Header[e.conf.headers[1]])
         \o ExpectedEntries(e.r.Header[e.conf.headers[2]])

\* C13: with trust disabled or no header names configured, Resolve returns
\* exactly the one-element sequence of the peer address (the host part of the
\* remote address, or the empty string when it does not parse), whatever the
\* forwarding headers hold.
C13_Untrusted ==
    \A i \in 1..Len(resolves) :
        (~resolves[i].conf.trust \/ resolves[i].conf.headers = <<>>)
            => resolves[i].result = <<ExpectedPeer(resolves[i].r.RemoteAddr)>>

\* Resolve ran without trust, with header names configured, on a request whose
\* X-Forwarded-For states two addresses
C13_Witness ==
    /\ Len(resolves) = 1
    /\ ~resolves[1].conf.trust
    /\ resolves[1].conf.headers = <<"X-Forwarded-For", "Forwarded">>
    /\ resolves[1].r.Header["X-Forwarded-For"] = <<"1", ",", "9">>
    /\ resolves[1].result = << <<"2">> >>

\* C14: with trust enabled, the result of Resolve is the concatenation, over
\* the configured header names in order, of the trimmed comma-separated entries
\* of each header that are IP literals, followed by at most the peer address;
\* malformed entries are dropped and the others kept.
C14_TrustedHeaders ==
    \A i \in 1..Len(resolves) :
        (resolves[i].conf.trust /\ resolves[i].conf.headers # <<>>)
            => \/ resolves[i].result = ExpectedChain(resolves[i])
               \/ resolves[i].result =
                      Append(ExpectedChain(resolves[i]),
                             ExpectedPeer(resolves[i].r.RemoteAddr))

\* Resolve ran with trust on two configured headers, one holding a malformed
\* entry before a valid one, the other two padded entries
C14_Witness ==
    /\ Len(resolves) = 1
    /\ resolves[1].conf.trust
    /\ resolves[1].conf.headers = <<"Forwarded", "X-Forwarded-For">>
    /\ resolves[1].r.Header["Forwarded"] = <<"x", ",", "2">>
    /\ resolves[1].r.Header["X-Forwarded-For"] = <<"1", ",", " ", "2">>
    /\ resolves[1].result = << <<"2">>, <<"1">>, <<"2">>, <<"9">> >>

\* C15: the result of Resolve is never empty and its last element is the peer
\* address; the peer address is appended to the header-derived addresses
\* exactly when they are empty or end in another address.
C15_EndsAtPeer ==
    \A i \in 1..Len(resolves) :
        LET h == ExpectedChain(resolves[i])
            peer == ExpectedPeer(resolves[i].r.RemoteAddr)
            res == resolves[i].result
        IN  /\ res # <<>>
            /\ res[Len(res)] = peer
            /\ res = IF h = <<>> \/ h[Len(h)] # peer THEN Append(h, peer) ELSE h

\* Resolve ran with trust on a header that already ends in the peer address
C15_Witness ==
    /\ Len(resolves) = 1
    /\ resolves[1].conf.trust
    /\ resolves[1].conf.headers = <<"X-Forwarded-For">>
    /\ resolves[1].r.Header["X-Forwarded-For"] = <<"1", ",", "9">>
    /\ resolves[1].r.RemoteAddr = <<"9", ":", "8">>
    /\ resolves[1].result = << <<"1">>, <<"9">> >>

\* C16: over any sequence of ClientIP and RemoteIP calls on one Context,
\* Resolve is called at most once, every ClientIP call returns the first
\* element of its result and every RemoteIP call the last.
C16_Memoized ==
    /\ Len(resolves) <= 1
    /\ \A k \in 1..Len(outs) :
           /\ Len(resolves) = 1
           /\ outs[k].op = "ClientIP" => outs[k].v = resolves[1].result[1]
           /\ outs[k].op = "RemoteIP"
                  => outs[k].v = resolves[1].result[Len(resolves[1].result)]

\* RemoteIP, ClientIP and RemoteIP again were called on a Context whose
\* addresses are a chain of three
C16_Witness ==
    /\ Len(outs) = 3
    /\ outs[1].op = "RemoteIP"
    /\ outs[2].op = "ClientIP"
    /\ outs[3].op = "RemoteIP"
    /\ outs[2].v # outs[3].v
    /\ Len(resolves) = 1
    /\ Len(resolves[1].result) = 3

(***************************************************************************)
(* Conditional-request helpers.                                            *)
(***************************************************************************)
\* each tag of Etags wrapped in double quotes, written out
Quoted(tag) ==
    CASE tag = "" -> "\"\"" [] tag = "a" -> "\"a\"" [] tag = "b" -> "\"b\""

\* the call recorded in outs[k] returned a Response with this status
Answered(k, status) == ~outs[k].v.isNil /\ outs[k].v.v.StatusCode = status

\* C17: ConditionalIfMatch(tag) returns a 412 response exactly when If-Match
\* is present and differs from the tag in double quotes, and nil otherwise.
C17_IfMatch ==
    \A k \in 1..Len(outs) :
        outs[k].op = "ConditionalIfMatch" =>
            IF /\ ctx.r.Header["If-Match"] # ""
               /\ ctx.r.Header["If-Match"] # Quoted(outs[k].arg)
            THEN Answered(k, 412)
            ELSE outs[k].v.isNil

\* ConditionalIfMatch was called with the tag the header holds without quotes
C17_Witness ==
    /\ Len(outs) = 1
    /\ outs[1].op = "ConditionalIfMatch"
    /\ outs[1].arg = "a"
    /\ ctx.r.Header["If-Match"] = "a"
    /\ Answered(1, 412)

\* C18: ConditionalIfNoneMatch(tag) returns nil when If-None-Match is absent
\* or differs from the quoted tag; when it equals the quoted tag it returns
\* 304 for GET and HEAD and 412 for every other method.
C18_IfNoneMatch ==
    \A k \in 1..Len(outs) :
        outs[k].op = "ConditionalIfNoneMatch" =>
            IF \/ ctx.r.Header["If-None-Match"] = ""
               \/ ctx.r.Header["If-None-Match"] # Quoted(outs[k].arg)
            THEN outs[k].v.isNil
            ELSE IF ctx.r.Method \in {"GET", "HEAD"}
            THEN Answered(k, 304)
            ELSE Answered(k, 412)

\* ConditionalIfNoneMatch was called on a POST whose header equals the quoted tag
C18_Witness ==
    /\ Len(outs) = 1
    /\ outs[1].op = "ConditionalIfNoneMatch"
    /\ outs[1].arg = "b"
    /\ ctx.r.Method = "POST"
    /\ ctx.r.Header["If-None-Match"] = "\"b\""
    /\ Answered(1, 412)

\* the greatest element of a non-empty sequence of times
Latest(ts) == CHOOSE m \in {ts[i] : i \in 1..Len(ts)} : \A i \in 1..Len(ts) : ts[i] <= m

\* C19: ConditionalIfModifiedSince(ts...) returns 400 when If-Modified-Since is
\* present and not a date; 304 when it is a date and the latest of the
\* timestamps, cut to whole seconds, is at or before it; nil when the latest
\* is after it or the header is absent.
C19_IfModifiedSince ==
    \A k \in 1..Len(outs) :
        (outs[k].op = "ConditionalIfModifiedSince" /\ outs[k].arg # <<>>) =>
            LET h == ctx.r.Header["If-Modified-Since"]
                seconds == Latest(outs[k].arg) \div TicksPerSecond
            IN  CASE h = "" -> outs[k].v.isNil
                  [] h = "Mon, 01 Jan 0001 00:00:01 GMT" ->
                        IF seconds <= 1 THEN Answered(k, 304) ELSE outs[k].v.isNil
                  [] h = "Mon, 01 Jan 0001 00:00:02 GMT" ->
                        IF seconds <= 2 THEN Answered(k, 304) ELSE outs[k].v.isNil
                  [] OTHER -> Answered(k, 400)

\* ConditionalIfModifiedSince was called with two timestamps, the later one
\* half a second after the date of the header, and answered 304
C19_Witness ==
    /\ Len(outs) = 1
    /\ outs[1].op = "ConditionalIfModifiedSince"
    /\ outs[1].arg = <<1, 3>>
    /\ ctx.r.Header["If-Modified-Since"] = "Mon, 01 Jan 0001 00:00:01 GMT"
    /\ Answered(1, 304)
    /\ outs[1].v.v.headers["Last-Modified"] = <<"Mon, 01 Jan 0001 00:00:01 GMT">>

(***************************************************************************)
(* BindJSON.                                                               *)
(***************************************************************************)
\* the call recorded in outs[k] answered 400 with an ErrorDto of this code
Refused(k, code) == Answered(k, 400) /\ outs[k].v.v.jsonBody.Code = code

\* C20: when the body can be read, BindJSON answers, in this order: 400
\* RequestBodyMissing for an empty body; 400 InvalidRequestBody for a body
\* that does not deserialize into the destination; 400 with the
\* ValidationError as structured body when the destination's Validate returns
\* a *ValidationError; 400 BadRequest when it returns another error; nil
\* otherwise.  Validate is not called for an empty or undeserializable body.
C20_BindJSON ==
    \A k \in 1..Len(outs) :
        (outs[k].op = "BindJSON" /\ outs[k].arg.body.err = Nil) =>
            LET b == outs[k].arg.body.data
                d == outs[k].arg.data
                called == {outs[k].v.steps[i] : i \in 1..Len(outs[k].v.steps)}
            IN  CASE b = "" -> Refused(k, "RequestBodyMissing") /\ "Validate" \notin called
                  [] b \in {" ", "{bad", "[1]"} \/ (b # "" /\ d.kind = "nonPointer") ->
                        Refused(k, "InvalidRequestBody") /\ "Validate" \notin called
                  [] OTHER ->
                        IF d.kind # "validatable" \/ d.validate.type = Nil
                        THEN outs[k].v.isNil
                        ELSE IF d.validate.type = "*ValidationError"
                        THEN Answered(k, 400) /\ outs[k].v.v.jsonBody = d.validate
                        ELSE Refused(k, "BadRequest")

\* BindJSON bound an object into a destination whose Validate returned a
\* ValidationError, and a second BindJSON on the same Context found no body
C20_Witness ==
    /\ Len(outs) >= 2
    /\ outs[1].op = "BindJSON"
    /\ outs[1].arg.body = [data |-> "{\"a\":1}", err |-> Nil]
    /\ outs[1].arg.data.validate = ErrorValue("*ValidationError", "ve1")
    /\ outs[1].v.v.jsonBody = ErrorValue("*ValidationError", "ve1")
    /\ outs[1].v.steps = <<"ReadAll", "Unmarshal", "Validate">>
    /\ Refused(2, "RequestBodyMissing")

(***************************************************************************)
(* The value store of a Context.                                           *)
(***************************************************************************)
\* the last Set(key, _) on the Context of request req among seen[1..n], 0
\* when there is none
LastSet(req, key, n) ==
    LET S == {m \in 1..n : seen[m].req = req /\ seen[m].op = "Set" /\ seen[m].key = key}
    IN  IF S = {} THEN 0 ELSE CHOOSE m \in S : \A x \in S : x <= m

\* C21: after any sequence of Set calls on one Context, Get(k) returns
\* (v, true) with v the value of the most recent Set(k, _) and (nil, false)
\* when k was never set; MustGet(k) returns that v when k was set and panics
\* when it was not; Get and MustGet leave the store as it was.
C21_Store ==
    \A n \in 1..Len(seen) :
        LET e == seen[n]
            l == LastSet(e.req, e.key, n - 1)
        IN  /\ e.op = "Get" =>
                /\ e.o = IF l = 0 THEN [v |-> Nil, ok |-> FALSE]
                                  ELSE [v |-> seen[l].arg, ok |-> TRUE]
                /\ e.after = e.before
            /\ e.op = "MustGet" =>
                /\ e.o.panicked = (l = 0)
                /\ l # 0 => e.o.r = seen[l].arg
                /\ e.after = e.before

\* a key was set twice to different values and MustGet returned the second
C21_Witness ==
    /\ Len(seen) = 3
    /\ seen[1].op = "Set" /\ seen[1].arg = "v1"
    /\ seen[2].op = "Set" /\ seen[2].arg = "v2"
    /\ seen[3].op = "MustGet" /\ seen[3].o = Returned("v2")
    /\ seen[1].req = seen[3].req /\ seen[2].req = seen[3].req
    /\ seen[1].key = seen[3].key /\ seen[2].key = seen[3].key

\* C24: every dispatch makes a fresh Context with an empty store and nothing
\* memoized, and a call made on the Context of one request changes neither
\* the Context nor the store of another request in flight.
C24_Isolated ==
    [][/\ Len(ctxs') > Len(ctxs) =>
            LET c == ctxs'[Len(ctxs')]
            IN  /\ stores'[c.values] = <<>>
                /\ ~c.queryParsed /\ c.query = <<>>
                /\ ~c.ipResolved /\ c.ipAddresses = <<>>
                /\ \A j \in 1..Len(ctxs) : ctxs[j].values # c.values
       /\ Len(seen') > Len(seen) =>
            \A j \in 1..Len(ctxs) :
                seen'[Len(seen')].req # j =>
                    /\ ctxs'[j] = ctxs[j]
                    /\ stores'[ctxs[j].values] = stores[ctxs[j].values]]_vars

\* with two requests in flight, one set a key and parsed its query, and the
\* other then found the key absent
C24_Witness ==
    /\ Len(ctxs) = 2 /\ Len(seen) = 3
    /\ seen[1].op = "Set" /\ seen[1].req = 1 /\ seen[1].key = "k"
    /\ seen[2].op = "Query" /\ seen[2].req = 1
    /\ seen[3].op = "Get" /\ seen[3].req = 2 /\ seen[3].key = "k"
    /\ seen[3].o = [v |-> Nil, ok |-> FALSE]
    /\ ctxs[1].query # ctxs[2].query

\* C26: on one Context the query string is parsed by the first of its
\* HasQuery and Query calls only.
C26_ParsedOnce ==
    \A i \in 1..Len(ctxs) :
        Cardinality({n \in 1..Len(seen) :
                        /\ seen[n].req = i
                        /\ seen[n].op \in {"HasQuery", "Query"}
                        /\ seen[n].o.parsed}) <= 1

(***************************************************************************)
(* Validation checks.                                                      *)
(***************************************************************************)
\* the violations of the failed Require calls among vlog[1..n], in order
RECURSIVE Failed(_)
Failed(n) ==
    IF n = 0 THEN <<>>
    ELSE IF vlog[n].op = "Require" /\ ~vlog[n].cond
         THEN Append(Failed(n - 1), vlog[n].violation)
         ELSE Failed(n - 1)

\* C22: nil threaded through N Require checks of which K fail yields nil when
\* K = 0 and otherwise a ValidationError with code "invalid_data" holding
\* exactly the K violations of the failed checks, in the order of the checks;
\* a passing check returns the previous value unchanged.
C22_Require ==
    /\ (vcur = 0) = (Failed(Len(vlog)) = <<>>)
    /\ vcur # 0 =>
        /\ verrs[vcur].Code = "invalid_data"
        /\ verrs[vcur].Errors = Failed(Len(vlog))
    /\ \A n \in 1..Len(vlog) :
        (vlog[n].op = "Require" /\ vlog[n].cond) =>
            /\ vlog[n].o = vlog[n].prev
            /\ vlog[n].after = vlog[n].before

\* of four checks the first and the third failed
C22_Witness ==
    /\ Len(vlog) = 4
    /\ \A n \in 1..4 : vlog[n].op = "Require" /\ vlog[n].cond = (n \in {2, 4})
    /\ vlog[1].violation # vlog[3].violation
    /\ vcur # 0
    /\ verrs[vcur].Errors = <<vlog[1].violation, vlog[3].violation>>

\* C30: once a failed Require has created the ValidationError, every later
\* failed check appends its violation to that same ValidationError and
\* returns it, and nothing is removed or reordered; Validate(v) returns the
\* nil error exactly when v is nil and v itself otherwise.
C30_SameContainer ==
    \A n \in 1..Len(vlog) :
        LET e == vlog[n]
        IN  /\ (e.op = "Require" /\ ~e.cond /\ e.prev # 0) =>
                /\ e.o = e.prev
                /\ Len(e.after) = Len(e.before)
                /\ e.after[e.prev].Errors = Append(e.before[e.prev].Errors, e.violation)
            /\ e.op = "Validate" =>
                /\ (e.o.type = Nil) = (e.prev = 0)
                /\ e.prev # 0 => e.o.type = "*ValidationError" /\ e.o.val = e.prev
                /\ e.after = e.before

\* Validate returned nil before the first failure, two checks then failed,
\* and Validate returned the ValidationError the first of them created
C30_Witness ==
    /\ Len(vlog) = 4
    /\ vlog[1].op = "Validate" /\ vlog[1].o.type = Nil
    /\ vlog[2].op = "Require" /\ ~vlog[2].cond /\ vlog[2].prev = 0
    /\ vlog[3].op = "Require" /\ ~vlog[3].cond /\ vlog[3].o = vlog[2].o
    /\ vlog[4].op = "Validate" /\ vlog[4].o.type = "*ValidationError"
    /\ vlog[4].o.val = vlog[2].o
    /\ Len(verrs) = 1 /\ Len(verrs[1].Errors) = 2

(***************************************************************************)
(* Write: what reaches the sink, and in which order.                       *)
(***************************************************************************)
\* a JSON decoder reading the body b: the value decoded, or its error
Decode(b) ==
    CASE b = "{\"a\":1}" -> [err |-> Nil, v |-> "obj"]
      [] b = "null" -> [err |-> Nil, v |-> Nil]
      [] b = "" -> [err |-> "EOF", v |-> Nil]
      [] OTHER -> [err |-> "SyntaxError", v |-> Nil]

\* C23: the body Write writes for Respond().Json(v), with v a value of the
\* JSON data model (null included), decodes to v.
C23_RoundTrip ==
    (/\ wstate = "written"
     /\ ncalls = 1
     /\ lastBody.kind = "json"
     /\ lastBody.val \in {Nil, "obj"}) =>
        /\ Len(StepsOf("write")) = 1
        /\ Decode(StepsOf("write")[1].data) = [err |-> Nil, v |-> lastBody.val]

\* the positions in the steps of the Write call of the steps named in ops
StepsAt(ops) == {i \in 1..Len(wres.steps) : wres.steps[i].op \in ops}

\* C27: in every Write the headers and the cookies are added to the sink
\* before the status line is written, the status line is written before any
\* body byte is written or streamed, and the status written is the
\* StatusCode the Response has when Write is called.
C27_CommitOrder ==
    wstate = "written" =>
        /\ StepsAt({"headers"}) = {1}
        /\ StepsAt({"cookies"}) = {2}
        /\ \A i \in StepsAt({"status"}) :
              /\ i > 2
              /\ wres.steps[i].code = resp.StatusCode
        /\ Cardinality(StepsAt({"status"})) <= 1
        /\ \A j \in StepsAt({"write", "bodyFn"}) :
              \E i \in StepsAt({"status"}) : i < j
        /\ mcall.op = "none" => \A i \in StepsAt({"status"}) : wres.steps[i].code = 200

\* a Response with a Via header, a cookie and status 404 was written
C27_Witness ==
    /\ wstate = "written"
    /\ resp.StatusCode = 404
    /\ Len(resp.headers["Via"]) = 1
    /\ Len(wres.hdr["Set-Cookie"]) = 1
    /\ \E i \in StepsAt({"status"}), j \in StepsAt({"write"}) :
          i < j /\ wres.steps[i].code = 404

\* the Set-Cookie line of a cookie of the model, which has a negative MaxAge
Line(c) == c.Name \o "=" \o c.Value \o "; Path=" \o c.Path \o "; Max-Age=0"

\* the statement of C28 as claimed: the sink holds the values of every header
\* in the order they were accumulated, and one Set-Cookie entry for each
\* registered cookie, in registration order
C28_OnePerCookie ==
    wstate = "written" =>
        /\ \A k \in HeaderNames \ {"Set-Cookie"} : wres.hdr[k] = resp.headers[k]
        /\ wres.hdr["Set-Cookie"] = [i \in 1..Len(resp.cookies) |-> Line(resp.cookies[i])]

HasValidName(c) == c.Name # ""

\* C28: Write adds to the sink one entry per accumulated header value, in
\* the order the values of a name were accumulated, repeated names kept as
\* separate entries, and one Set-Cookie entry for each registered cookie
\* whose Name is a valid cookie name, in registration order; a cookie whose
\* Name is not valid adds no entry.
C28_OnePerValidCookie ==
    wstate = "written" =>
        LET valid == SelectSeq(resp.cookies, HasValidName)
        IN  /\ \A k \in HeaderNames \ {"Set-Cookie"} : wres.hdr[k] = resp.headers[k]
            /\ wres.hdr["Set-Cookie"] = [i \in 1..Len(valid) |-> Line(valid[i])]

\* a Response given two Via values and a cookie was written
C28_Witness ==
    /\ wstate = "written"
    /\ wres.hdr["Via"] = <<"1.1 b", "1.1 a">>
    /\ Len(resp.cookies) = 1
    /\ wres.hdr["Set-Cookie"] = <<"sid=v; Path=/; Max-Age=0">>

\* C29: when the structured body of the Response cannot be serialized, Write
\* returns the serialization error after adding the headers and the cookies,
\* without writing a status line or a body byte and without calling the
\* streaming writer, and the wrapper logs the error and writes nothing more:
\* no 500 response is produced.
C29_SerializationFailure ==
    (pc = "done" /\ ret.v.jsonBody = "chan") =>
        /\ Len(writes) = 1
        /\ writes[1].err = "UnsupportedTypeError"
        /\ Len(writes[1].steps) >= 3
        /\ [i \in 1..3 |-> writes[1].steps[i].op] = <<"headers", "cookies", "marshal">>
        /\ \A i \in 1..Len(writes[1].steps) :
              writes[1].steps[i].op \notin {"status", "write", "bodyFn"}
        /\ \A k \in HeaderNames \ {"Set-Cookie"} : writes[1].hdr[k] = ret.v.headers[k]
        /\ Len(writes[1].hdr["Set-Cookie"]) = Len(ret.v.cookies)
        /\ errlog = <<"UnsupportedTypeError">>

\* a handler returned, through a middleware, a Response with a cookie, a
\* channel as structured body and a streaming writer, and the dispatch is done
C29_Witness ==
    /\ pc = "done"
    /\ ret.v.jsonBody = "chan"
    /\ ret.v.bodyFn = "fnOk"
    /\ writes[1].hdr["Set-Cookie"] # <<>>
    /\ errlog # <<>>
    /\ Len(trace) > 2

(***************************************************************************)
(* Forwarding headers without trust.                                       *)
(***************************************************************************)
\* C25: on a Server whose trust flag was never set, ClientIP and RemoteIP
\* both return the peer address of the socket, and a request that differs
\* from this one only in its X-Forwarded-For and Forwarded values gets the
\* same ClientIP.
C25_NoTrust ==
    (ctx.live /\ ~ctx.conf.trust) =>
        /\ \A k \in 1..Len(outs) :
              outs[k].op \in {"ClientIP", "RemoteIP"} =>
                  outs[k].v = ExpectedPeer(ctx.r.RemoteAddr)
        /\ \A xff \in ForwardVals, fwd \in ForwardVals :
              ClientIP(NewContext(ctx.conf,
                                  [ctx.r EXCEPT !.Header =
                                      [@ EXCEPT !["X-Forwarded-For"] = xff,
                                                !["Forwarded"] = fwd]],
                                  0)).v
                = ClientIP(NewContext(ctx.conf, ctx.r, 0)).v

\* on a Server with the configuration NewServer gives it, a request with
\* forwarding headers got its peer address from ClientIP and from RemoteIP
C25_Witness ==
    /\ ctx.live
    /\ ctx.conf = [headers |-> <<"X-Forwarded-For", "Forwarded">>, trust |-> FALSE]
    /\ ctx.r.Header["X-Forwarded-For"] = <<"1", ",", " ", "2">>
    /\ ctx.r.Header["Forwarded"] = <<"1">>
    /\ Len(outs) = 2
    /\ outs[1].op = "ClientIP" /\ outs[1].v = <<"9">>
    /\ outs[2].op = "RemoteIP" /\ outs[2].v = <<"9">>
====
